---- MODULE Spec2Model ----
(***************************************************************************)
(* Model of the sber-invest-report extraction and aggregation engine.      *)
(*                                                                         *)
(* Text is a sequence of Unicode code points (Rust `char`s): "итого" is    *)
(* <<1080, 1090, 1086, 1075, 1086>>.  A Decimal (Money) is the pair        *)
(* [m, s] standing for m * 10^(-s), kept in canonical form (no trailing    *)
(* zero digit), so that record equality is Decimal's numeric equality.     *)
(* Option<T> is <<>> (None) or <<v>> (Some(v)); Result<T, ReportError> is  *)
(* [ok |-> TRUE, value |-> v] or [ok |-> FALSE, err |-> e].                *)
(***************************************************************************)
EXTENDS Integers, Sequences, FiniteSets, TLC

VARIABLES
    doc,        \* DomReport.doc: the parsed document handed to the extractors
    options,    \* ReportBuilder.options: the four section toggles
    call,       \* the operation applied last and its argument: [op, arg]
    result,     \* what that operation returned (<<>> before any)
    reports,    \* ReportSet.reports
    merged      \* what the last merge_* call returned (<<>> before any)

vars == <<doc, options, call, result, reports, merged>>

-----------------------------------------------------------------------------
(* Option and Result *)

None == <<>>
Some(v) == <<v>>
Ok(v) == [ok |-> TRUE, value |-> v]
Err(e) == [ok |-> FALSE, err |-> e]

(* ReportError variants *)
TableNotFound(table) == [kind |-> "TableNotFound", table |-> table]
NumberError(value, column) == [kind |-> "Number", value |-> value, column |-> column]
DateError(value) == [kind |-> "Date", value |-> value]
MissingField(field) == [kind |-> "MissingField", field |-> field]
RegexError(text) == [kind |-> "Regex", text |-> text]

-----------------------------------------------------------------------------
(* Characters and text *)

SPACE == 32
NBSP == 160
NNBSP == 8239
PLUS == 43
MINUS == 45
DOT == 46

\* char::is_whitespace: the Unicode White_Space code points
WhiteSpace ==
    {9, 10, 11, 12, 13, 32, 133, 160, 5760, 8232, 8233, 8239, 8287, 12288}
        \cup (8192..8202)

is_whitespace(ch) == ch \in WhiteSpace

\* char lowercasing for the Latin and Cyrillic letters the reports use
to_lowercase_char(ch) ==
    IF ch \in 65..90 THEN ch + 32
    ELSE IF ch \in 1040..1071 THEN ch + 32
    ELSE IF ch = 1025 THEN 1105
    ELSE ch

to_lowercase(s) == [i \in 1..Len(s) |-> to_lowercase_char(s[i])]

starts_with(s, prefix) ==
    /\ Len(prefix) <= Len(s)
    /\ SubSeq(s, 1, Len(prefix)) = prefix

\* str::contains: prefix of some suffix
contains(s, target) ==
    \E i \in 1..(Len(s) + 1) :
        /\ i + Len(target) - 1 <= Len(s)
        /\ SubSeq(s, i, i + Len(target) - 1) = target

RECURSIVE trim_start(_)
trim_start(s) ==
    IF s # <<>> /\ is_whitespace(Head(s)) THEN trim_start(Tail(s)) ELSE s

RECURSIVE trim_end(_)
trim_end(s) ==
    IF s # <<>> /\ is_whitespace(s[Len(s)])
    THEN trim_end(SubSeq(s, 1, Len(s) - 1))
    ELSE s

trim(s) == trim_end(trim_start(s))

\* str::trim_start_matches(pattern): strips the prefix repeatedly
RECURSIVE trim_start_matches(_, _)
trim_start_matches(s, pattern) ==
    IF pattern # <<>> /\ starts_with(s, pattern)
    THEN trim_start_matches(SubSeq(s, Len(pattern) + 1, Len(s)), pattern)
    ELSE s

\* normalize_chars: the loop pushes a char that is not whitespace, and pushes
\* one ' ' for a whitespace char whose predecessor was not whitespace
\* (prev_space is false at the first char); the output is then trimmed.
normalize_chars(chars) ==
    LET pushed(i) == \/ ~is_whitespace(chars[i])
                     \/ i = 1
                     \/ ~is_whitespace(chars[i - 1])
        kept == SelectSeq([i \in 1..Len(chars) |-> i], pushed)
        output == [k \in 1..Len(kept) |->
                      IF is_whitespace(chars[kept[k]]) THEN SPACE
                      ELSE chars[kept[k]]]
    IN  trim(output)

\* collect_text of an element whose descendant text is `text`
collect_text(text) == normalize_chars(text)

-----------------------------------------------------------------------------
(* Decimal *)

RECURSIVE Pow10(_)
Pow10(n) == IF n = 0 THEN 1 ELSE 10 * Pow10(n - 1)

RECURSIVE Canon(_)
Canon(d) ==
    IF d.m = 0 THEN [m |-> 0, s |-> 0]
    ELSE IF d.s > 0 /\ d.m % 10 = 0 THEN Canon([m |-> d.m \div 10, s |-> d.s - 1])
    ELSE d

ZERO == [m |-> 0, s |-> 0]

Dec(m, s) == Canon([m |-> m, s |-> s])

\* Decimal's `+` / `+=`
DecAdd(a, b) ==
    LET sc == IF a.s >= b.s THEN a.s ELSE b.s
    IN  Dec(a.m * Pow10(sc - a.s) + b.m * Pow10(sc - b.s), sc)

IsDigit(ch) == ch \in 48..57

RECURSIVE DigitsValue(_, _)
DigitsValue(s, acc) ==
    IF s = <<>> THEN acc
    ELSE IF IsDigit(Head(s)) THEN DigitsValue(Tail(s), 10 * acc + (Head(s) - 48))
    ELSE DigitsValue(Tail(s), acc)

\* Decimal::from_str: an optional sign, then digits with at most one '.',
\* at least one digit.  None stands for the parse error.
DecimalFromStr(s) ==
    LET signed == s # <<>> /\ Head(s) \in {MINUS, PLUS}
        body == IF signed THEN Tail(s) ELSE s
        dots == {i \in 1..Len(body) : body[i] = DOT}
        digits == {i \in 1..Len(body) : IsDigit(body[i])}
        shape == /\ \A i \in 1..Len(body) : IsDigit(body[i]) \/ body[i] = DOT
                 /\ Cardinality(dots) <= 1
                 /\ digits # {}
        scale == IF dots = {} THEN 0
                 ELSE Len(body) - (CHOOSE i \in dots : TRUE)
        mag == DigitsValue(body, 0)
        neg == signed /\ Head(s) = MINUS
    IN  IF shape THEN Some(Dec(IF neg THEN 0 - mag ELSE mag, scale)) ELSE None

-----------------------------------------------------------------------------
(* Field normalizer, utils.rs *)

RECURSIVE FilterNumberChars(_)
FilterNumberChars(s) ==
    IF s = <<>> THEN <<>>
    ELSE IF Head(s) \in {SPACE, NBSP, NNBSP, PLUS} THEN FilterNumberChars(Tail(s))
    ELSE <<Head(s)>> \o FilterNumberChars(Tail(s))

normalize_number(input) == trim(FilterNumberChars(input))

parse_money_or_zero(value, column) ==
    LET normalized == normalize_number(value)
        parsed == DecimalFromStr(normalized)
    IN  IF normalized = <<>> THEN Ok(ZERO)
        ELSE IF parsed = None THEN Err(NumberError(trim(value), column))
        ELSE Ok(parsed[1])

-----------------------------------------------------------------------------
(* The document tree (scraper::Html), as far as the selectors look at it:    *)
(*   doc    = [h3: Seq(Text), p: Seq(Text), tables: Seq(table)]             *)
(*   table  = [class: STRING, rows: Seq(tr)]   (tr in document order)       *)
(*   tr     = Seq(cell),  cell = [tag: "td" | "th", text: Text]             *)
(* A table element is referred to by its index in doc.tables.               *)

Td(text) == [tag |-> "td", text |-> text]
Th(text) == [tag |-> "th", text |-> text]

\* tr.select(&TD_SELECTOR).map(collect_text).collect()
Cells(tr) ==
    LET tds == SelectSeq(tr, LAMBDA c : c.tag = "td")
    IN  [i \in 1..Len(tds) |-> collect_text(tds[i].text)]

\* header_row.select(&HEADER_SELECTOR).map(collect_text).collect(): td and th
Headers(tr) == [i \in 1..Len(tr) |-> collect_text(tr[i].text)]

\* cells[i] with Rust's 0-based index
At(cells, i) == cells[i + 1]

all_empty(cells) == \A i \in 1..Len(cells) : cells[i] = <<>>

-----------------------------------------------------------------------------
(* Table locator, utils.rs *)

\* required_headers.iter().all(|target| headers.iter().any(|h| h.contains(target)))
row_matches(header_row, required_headers) ==
    LET headers == Headers(header_row)
    IN  \A t \in 1..Len(required_headers) :
            \E h \in 1..Len(headers) : contains(headers[h], required_headers[t])

\* the inner loop: `for _ in 0..header_depth`, one rows.next() per turn
table_matches(table, required_headers, header_depth) ==
    \E k \in 1..header_depth :
        /\ k <= Len(table.rows)
        /\ row_matches(table.rows[k], required_headers)

RECURSIVE find_table_from(_, _, _, _)
find_table_from(d, required_headers, header_depth, i) ==
    IF i > Len(d.tables) THEN None
    ELSE IF table_matches(d.tables[i], required_headers, header_depth) THEN Some(i)
    ELSE find_table_from(d, required_headers, header_depth, i + 1)

find_table_with_headers(d, required_headers, custom_header_depth) ==
    LET header_depth == IF custom_header_depth = None THEN 1
                        ELSE custom_header_depth[1]
    IN  find_table_from(d, required_headers, header_depth, 1)

-----------------------------------------------------------------------------
(* Section extractors, parser.rs *)

\* cells decoded in order by parse_money_or_zero, stopping at the first error
\* (the `?` after each call); cols is a sequence of <<index, column>>
RECURSIVE parse_money_cells(_, _, _)
parse_money_cells(cells, cols, acc) ==
    IF cols = <<>> THEN Ok(acc)
    ELSE
        LET r == parse_money_or_zero(At(cells, Head(cols)[1]), Head(cols)[2])
        IN  IF r.ok THEN parse_money_cells(cells, Tail(cols), Append(acc, r.value))
            ELSE r

\* "итого"
ITOGO == <<1080, 1090, 1086, 1075, 1086>>

\* the logical column names of parse_asset_valuation (transliterated)
ValuationColumns ==
    << <<1, "CB nachalo">>, <<2, "Denezhnye sredstva nachalo">>,
       <<3, "Vsego nachalo">>, <<4, "CB konec">>,
       <<5, "Denezhnye sredstva konec">>, <<6, "Vsego konec">>,
       <<7, "CB izmenenie">>, <<8, "Denezhnye sredstva izmenenie">>,
       <<9, "Vsego izmenenie">> >>

AssetValuationRow(venue, v) ==
    [venue |-> venue,
     start_securities |-> v[1], start_cash |-> v[2], start_total |-> v[3],
     end_securities |-> v[4], end_cash |-> v[5], end_total |-> v[6],
     delta_securities |-> v[7], delta_cash |-> v[8], delta_total |-> v[9]]

\* variant: the fallback total sums the cash deltas instead of the totals
RECURSIVE fold_delta_cash(_, _)
fold_delta_cash(rows, acc) ==
    IF rows = <<>> THEN acc
    ELSE fold_delta_cash(Tail(rows), DecAdd(acc, Head(rows).delta_cash))

\* rows.iter().map(|r| r.delta_total).fold(Decimal::ZERO, |acc, v| acc + v)
RECURSIVE fold_delta_total(_, _)
fold_delta_total(rows, acc) ==
    IF rows = <<>> THEN acc
    ELSE fold_delta_total(Tail(rows), DecAdd(acc, Head(rows).delta_total))

\* the row loop of parse_asset_valuation; idx is enumerate()'s 0-based index
RECURSIVE asset_valuation_loop(_, _, _, _, _)
asset_valuation_loop(trs, idx, rows, total_delta, summary_seen) ==
    IF idx >= Len(trs) THEN
        Ok([rows |-> rows,
            total_delta |-> IF ~summary_seen THEN fold_delta_total(rows, ZERO)
                            ELSE total_delta])
    ELSE
        LET cells == Cells(trs[idx + 1])
            skip == asset_valuation_loop(trs, idx + 1, rows, total_delta, summary_seen)
        IN  IF idx < 3 THEN skip
            ELSE IF cells = <<>> THEN skip
            ELSE IF contains(to_lowercase(cells[1]), ITOGO) THEN
                LET last == parse_money_or_zero(cells[Len(cells)], "Itogo")
                IN  IF last.ok
                    THEN asset_valuation_loop(trs, idx + 1, rows, last.value, TRUE)
                    ELSE last
            ELSE IF Len(cells) < 10 THEN skip
            ELSE
                LET r == parse_money_cells(cells, ValuationColumns, <<>>)
                IN  IF r.ok
                    THEN asset_valuation_loop(trs, idx + 1,
                            Append(rows, AssetValuationRow(cells[1], r.value)),
                            total_delta, summary_seen)
                    ELSE r

\* variant: the total is summed from the rows even after a summary row
parse_asset_valuation_always_sums(d) ==
    LET rating == {i \in 1..Len(d.tables) : d.tables[i].class = "RatingAssets"}
    IN  IF rating = {} THEN Err(TableNotFound("RatingAssets"))
        ELSE
            LET table == d.tables[CHOOSE i \in rating : \A j \in rating : i <= j]
                r == asset_valuation_loop(table.rows, 0, <<>>, ZERO, FALSE)
            IN  IF r.ok
                THEN Ok([r.value EXCEPT
                            !.total_delta = fold_delta_total(r.value.rows, ZERO)])
                ELSE r

\* doc.select(&RATING_SELECTOR).next(): the first table of class RatingAssets
parse_asset_valuation(d) ==
    LET rating == {i \in 1..Len(d.tables) : d.tables[i].class = "RatingAssets"}
    IN  IF rating = {} THEN Err(TableNotFound("RatingAssets"))
        ELSE
            LET table == d.tables[CHOOSE i \in rating : \A j \in rating : i <= j]
            IN  asset_valuation_loop(table.rows, 0, <<>>, ZERO, FALSE)

-----------------------------------------------------------------------------
(* Cash-flow classifier and summary, parser.rs *)

\* CashFlowKind in declaration order: the derived Ord compares these positions
CashFlowKinds ==
    <<"OpeningBalance", "TradesNet", "CorporateActions", "BrokerFee",
      "ExchangeFee", "ClosingBalance", "Unknown">>

\* "входящий остаток"
PH_OPENING == <<1074, 1093, 1086, 1076, 1103, 1097, 1080, 1081, 32, 1086, 1089, 1090, 1072, 1090, 1086, 1082>>
\* "сальдо расчетов по сделкам"
PH_TRADES == <<1089, 1072, 1083, 1100, 1076, 1086, 32, 1088, 1072, 1089, 1095, 1077, 1090, 1086, 1074, 32, 1087, 1086, 32, 1089, 1076, 1077, 1083, 1082, 1072, 1084>>
\* "корпоративные действия"
PH_CORPORATE == <<1082, 1086, 1088, 1087, 1086, 1088, 1072, 1090, 1080, 1074, 1085, 1099, 1077, 32, 1076, 1077, 1081, 1089, 1090, 1074, 1080, 1103>>
\* "комиссия брокера"
PH_BROKER_FEE == <<1082, 1086, 1084, 1080, 1089, 1089, 1080, 1103, 32, 1073, 1088, 1086, 1082, 1077, 1088, 1072>>
\* "комиссия биржи"
PH_EXCHANGE_FEE == <<1082, 1086, 1084, 1080, 1089, 1089, 1080, 1103, 32, 1073, 1080, 1088, 1078, 1080>>
\* "исходящий остаток"
PH_CLOSING == <<1080, 1089, 1093, 1086, 1076, 1103, 1097, 1080, 1081, 32, 1086, 1089, 1090, 1072, 1090, 1086, 1082>>

\* variant: the phrases are tried from the last kind to the first
classify_cash_flow_reversed(description) ==
    LET lower == to_lowercase(description)
    IN  IF contains(lower, PH_CLOSING) THEN "ClosingBalance"
        ELSE IF contains(lower, PH_EXCHANGE_FEE) THEN "ExchangeFee"
        ELSE IF contains(lower, PH_BROKER_FEE) THEN "BrokerFee"
        ELSE IF contains(lower, PH_CORPORATE) THEN "CorporateActions"
        ELSE IF contains(lower, PH_TRADES) THEN "TradesNet"
        ELSE IF contains(lower, PH_OPENING) THEN "OpeningBalance"
        ELSE "Unknown"

classify_cash_flow(description) ==
    LET lower == to_lowercase(description)
    IN  IF contains(lower, PH_OPENING) THEN "OpeningBalance"
        ELSE IF contains(lower, PH_TRADES) THEN "TradesNet"
        ELSE IF contains(lower, PH_CORPORATE) THEN "CorporateActions"
        ELSE IF contains(lower, PH_BROKER_FEE) THEN "BrokerFee"
        ELSE IF contains(lower, PH_EXCHANGE_FEE) THEN "ExchangeFee"
        ELSE IF contains(lower, PH_CLOSING) THEN "ClosingBalance"
        ELSE "Unknown"

\* "Описание", "Сумма", "Валюта"
CashFlowHeaders ==
    << <<1054, 1087, 1080, 1089, 1072, 1085, 1080, 1077>>,
       <<1057, 1091, 1084, 1084, 1072>>,
       <<1042, 1072, 1083, 1102, 1090, 1072>> >>

RECURSIVE cash_flow_loop(_, _, _)
cash_flow_loop(trs, idx, rows) ==
    IF idx >= Len(trs) THEN Ok([rows |-> rows])
    ELSE
        LET cells == Cells(trs[idx + 1])
            skip == cash_flow_loop(trs, idx + 1, rows)
        IN  IF idx < 2 THEN skip
            ELSE IF Len(cells) < 3 THEN skip
            ELSE IF all_empty(cells) THEN skip
            ELSE
                LET description == At(cells, 0)
                    amount == parse_money_or_zero(At(cells, 1), "Summa DS")
                IN  IF amount.ok
                    THEN cash_flow_loop(trs, idx + 1,
                            Append(rows, [kind |-> classify_cash_flow(description),
                                          description_raw |-> description,
                                          amount |-> amount.value,
                                          currency |-> At(cells, 2)]))
                    ELSE amount

parse_cash_flow_summary(d) ==
    LET table == find_table_with_headers(d, CashFlowHeaders, None)
    IN  IF table = None THEN Err(TableNotFound("CashFlowSummary"))
        ELSE cash_flow_loop(d.tables[table[1]].rows, 0, <<>>)

-----------------------------------------------------------------------------
(* Portfolio, parser.rs *)

\* "ISIN", "Рыночная стоимость, без НКД", "Рыночная цена", "Плановые зачисления"
PortfolioHeaders ==
    << <<73, 83, 73, 78>>,
       <<1056, 1099, 1085, 1086, 1095, 1085, 1072, 1103, 32, 1089, 1090, 1086, 1080, 1084, 1086, 1089, 1090, 1100, 44, 32, 1073, 1077, 1079, 32, 1053, 1050, 1044>>,
       <<1056, 1099, 1085, 1086, 1095, 1085, 1072, 1103, 32, 1094, 1077, 1085, 1072>>,
       <<1055, 1083, 1072, 1085, 1086, 1074, 1099, 1077, 32, 1079, 1072, 1095, 1080, 1089, 1083, 1077, 1085, 1080, 1103>> >>

\* "Площадка"
PLOSHCHADKA == <<1055, 1083, 1086, 1097, 1072, 1076, 1082, 1072>>
\* "Площадка:"
PLOSHCHADKA_COLON == <<1055, 1083, 1086, 1097, 1072, 1076, 1082, 1072, 58>>
\* "Неизвестно"
NEIZVESTNO == <<1053, 1077, 1080, 1079, 1074, 1077, 1089, 1090, 1085, 1086>>

\* the logical column names of parse_portfolio (transliterated)
PortfolioColumns ==
    << <<3, "Kolichestvo nachalo">>, <<4, "Nominal nachalo">>,
       <<5, "Cena nachalo">>, <<6, "Stoimost bez NKD nachalo">>,
       <<7, "NKD nachalo">>, <<8, "Kolichestvo konec">>,
       <<9, "Nominal konec">>, <<10, "Cena konec">>,
       <<11, "Stoimost bez NKD konec">>, <<12, "NKD konec">>,
       <<13, "Kolichestvo izmenenie">>, <<14, "Stoimost izmenenie">>,
       <<15, "Planovye zachisleniya">>, <<16, "Planovye spisaniya">>,
       <<17, "Planovyj iskhodyashchij ostatok">> >>

SecurityPosition(cells, v) ==
    [name |-> At(cells, 0), isin |-> At(cells, 1), price_currency |-> At(cells, 2),
     qty_start |-> v[1], nominal_start |-> v[2], price_start |-> v[3],
     value_start_no_ai |-> v[4], accrued_interest_start |-> v[5],
     qty_end |-> v[6], nominal_end |-> v[7], price_end |-> v[8],
     value_end_no_ai |-> v[9], accrued_interest_end |-> v[10],
     qty_delta |-> v[11], value_delta |-> v[12],
     planned_in_qty |-> v[13], planned_out_qty |-> v[14], planned_end_qty |-> v[15]]

\* current_market.as_mut() / else branch: where a decoded position goes
push_position(current_market, position) ==
    IF current_market # None
    THEN Some([current_market[1] EXCEPT !.positions = Append(@, position)])
    ELSE Some([name |-> NEIZVESTNO, positions |-> <<position>>])

\* variant: the open market is dropped instead of pushed
flush_market_dropped(markets, current_market) == markets

\* current_market.take() pushed on markets
flush_market(markets, current_market) ==
    IF current_market # None THEN Append(markets, current_market[1]) ELSE markets

\* the name of the market a marker row opens
market_name(cell) == trim(trim_start_matches(cell, PLOSHCHADKA_COLON))

RECURSIVE portfolio_loop(_, _, _, _)
portfolio_loop(trs, idx, markets, current_market) ==
    IF idx >= Len(trs) THEN Ok([markets |-> flush_market(markets, current_market)])
    ELSE
        LET cells == Cells(trs[idx + 1])
            skip == portfolio_loop(trs, idx + 1, markets, current_market)
        IN  IF idx < 3 THEN skip
            ELSE IF cells = <<>> THEN skip
            ELSE IF starts_with(At(cells, 0), PLOSHCHADKA) THEN
                portfolio_loop(trs, idx + 1, flush_market(markets, current_market),
                    Some([name |-> market_name(At(cells, 0)), positions |-> <<>>]))
            ELSE IF Len(cells) < 18 THEN skip
            ELSE
                LET r == parse_money_cells(cells, PortfolioColumns, <<>>)
                IN  IF r.ok
                    THEN portfolio_loop(trs, idx + 1, markets,
                            push_position(current_market, SecurityPosition(cells, r.value)))
                    ELSE r

parse_portfolio(d) ==
    LET table == find_table_with_headers(d, PortfolioHeaders, Some(2))
    IN  IF table = None THEN Err(TableNotFound("Portfolio"))
        ELSE portfolio_loop(d.tables[table[1]].rows, 0, <<>>, None)

-----------------------------------------------------------------------------
(* Dates and integers *)

IsLeap(y) == (y % 4 = 0 /\ y % 100 # 0) \/ y % 400 = 0

DaysInMonth(y, m) ==
    IF m \in {4, 6, 9, 11} THEN 30
    ELSE IF m = 2 THEN (IF IsLeap(y) THEN 29 ELSE 28)
    ELSE 31

\* NaiveDate::parse_from_str(_, "%d.%m.%Y") on text of the shape dd.mm.yyyy;
\* any other text, and a day or month out of the calendar, is None
NaiveDateFromStr(s) ==
    LET shape == /\ Len(s) = 10
                 /\ s[3] = DOT /\ s[6] = DOT
                 /\ \A i \in {1, 2, 4, 5, 7, 8, 9, 10} : IsDigit(s[i])
        d == DigitsValue(SubSeq(s, 1, 2), 0)
        m == DigitsValue(SubSeq(s, 4, 5), 0)
        y == DigitsValue(SubSeq(s, 7, 10), 0)
    IN  IF shape /\ m \in 1..12 /\ d >= 1 /\ d <= DaysInMonth(y, m)
        THEN Some([year |-> y, month |-> m, day |-> d])
        ELSE None

parse_date(value) ==
    LET parsed == NaiveDateFromStr(trim(value))
    IN  IF parsed = None THEN Err(DateError(trim(value))) ELSE Ok(parsed[1])

I32_MAX == 2147483647

\* str::parse::<i32>: an optional sign, at least one digit, nothing else,
\* the value within i32
I32FromStr(s) ==
    LET signed == s # <<>> /\ Head(s) \in {MINUS, PLUS}
        body == IF signed THEN Tail(s) ELSE s
        mag == DigitsValue(body, 0)
        v == IF signed /\ Head(s) = MINUS THEN 0 - mag ELSE mag
    IN  IF body # <<>> /\ (\A i \in 1..Len(body) : IsDigit(body[i]))
           /\ v <= I32_MAX /\ v >= 0 - I32_MAX - 1
        THEN Some(v)
        ELSE None

-----------------------------------------------------------------------------
(* IIS contributions, parser.rs *)

\* "Год", "Лимит, руб.", "Дата операции", "Сумма, руб.", "Основание операции",
\* "Остаток лимита"
IisHeaders ==
    << <<1043, 1086, 1076>>,
       <<1051, 1080, 1084, 1080, 1090, 44, 32, 1088, 1091, 1073, 46>>,
       <<1044, 1072, 1090, 1072, 32, 1086, 1087, 1077, 1088, 1072, 1094, 1080, 1080>>,
       <<1057, 1091, 1084, 1084, 1072, 44, 32, 1088, 1091, 1073, 46>>,
       <<1054, 1089, 1085, 1086, 1074, 1072, 1085, 1080, 1077, 32, 1086, 1087, 1077, 1088, 1072, 1094, 1080, 1080>>,
       <<1054, 1089, 1090, 1072, 1090, 1086, 1082, 32, 1083, 1080, 1084, 1080, 1090, 1072>> >>

\* "ограничений нет"
NO_LIMIT == <<1086, 1075, 1088, 1072, 1085, 1080, 1095, 1077, 1085, 1080, 1081, 32, 1085, 1077, 1090>>

\* the year cell: Ok(current_year) after the row, or the Number error
iis_year(cell, current_year) ==
    IF cell # <<>> THEN
        LET parsed == I32FromStr(trim(cell))
        IN  IF parsed = None THEN Err(NumberError(cell, "God")) ELSE Ok(parsed)
    ELSE Ok(current_year)

\* variant: a blank limit cell forgets the limit in effect
iis_limit_forgets(cell, current_limit) ==
    IF cell # <<>> THEN
        IF contains(to_lowercase(cell), NO_LIMIT) THEN Ok(Some(ZERO))
        ELSE
            LET r == parse_money_or_zero(cell, "Limit IIS")
            IN  IF r.ok THEN Ok(Some(r.value)) ELSE r
    ELSE Ok(None)

\* the limit cell: Ok(current_limit) after the row, or the Number error
iis_limit(cell, current_limit) ==
    IF cell # <<>> THEN
        IF contains(to_lowercase(cell), NO_LIMIT) THEN Ok(Some(ZERO))
        ELSE
            LET r == parse_money_or_zero(cell, "Limit IIS")
            IN  IF r.ok THEN Ok(Some(r.value)) ELSE r
    ELSE Ok(current_limit)

\* variant: the remaining-limit cell always goes to the number parser
iis_remaining_parsed(cell) == parse_money_or_zero(cell, "Ostatok limita")

\* the remaining-limit cell
iis_remaining(cell) ==
    IF contains(to_lowercase(cell), NO_LIMIT) THEN Ok(ZERO)
    ELSE parse_money_or_zero(cell, "Ostatok limita")

\* variant: a missing limit is an error as a missing year is
iis_emit_limit_required(cells, current_year, current_limit) ==
    LET date == parse_date(At(cells, 2))
        amount == parse_money_or_zero(At(cells, 3), "Summa IIS")
        remaining_limit == iis_remaining(At(cells, 5))
    IN  IF current_year = None THEN Err(MissingField("God"))
        ELSE IF current_limit = None THEN Err(MissingField("Limit IIS"))
        ELSE IF ~date.ok THEN date
        ELSE IF ~amount.ok THEN amount
        ELSE IF ~remaining_limit.ok THEN remaining_limit
        ELSE Ok([year |-> current_year[1],
                 limit_rub |-> current_limit[1],
                 date |-> date.value,
                 amount |-> amount.value,
                 operation_reason |-> At(cells, 4),
                 remaining_limit |-> remaining_limit.value])

\* a dated row: the IisContribution it yields, or the first error in the
\* order year, date, amount, remaining limit
iis_emit(cells, current_year, current_limit) ==
    LET date == parse_date(At(cells, 2))
        amount == parse_money_or_zero(At(cells, 3), "Summa IIS")
        remaining_limit == iis_remaining(At(cells, 5))
    IN  IF current_year = None THEN Err(MissingField("God"))
        ELSE IF ~date.ok THEN date
        ELSE IF ~amount.ok THEN amount
        ELSE IF ~remaining_limit.ok THEN remaining_limit
        ELSE Ok([year |-> current_year[1],
                 limit_rub |-> IF current_limit = None THEN ZERO ELSE current_limit[1],
                 date |-> date.value,
                 amount |-> amount.value,
                 operation_reason |-> At(cells, 4),
                 remaining_limit |-> remaining_limit.value])

\* variant: a row without a date leaves the year and limit as they were
RECURSIVE iis_loop_undated_ignored(_, _, _, _, _)
iis_loop_undated_ignored(trs, idx, rows, current_year, current_limit) ==
    IF idx >= Len(trs) THEN Ok([rows |-> rows])
    ELSE
        LET cells == Cells(trs[idx + 1])
            skip == iis_loop_undated_ignored(trs, idx + 1, rows, current_year, current_limit)
        IN  IF idx < 3 THEN skip
            ELSE IF Len(cells) < 6 THEN skip
            ELSE IF all_empty(cells) THEN skip
            ELSE
                LET year == iis_year(At(cells, 0), current_year)
                IN  IF ~year.ok THEN year
                    ELSE
                        LET limit == iis_limit(At(cells, 1), current_limit)
                        IN  IF ~limit.ok THEN limit
                            ELSE IF At(cells, 2) = <<>> THEN skip
                            ELSE
                                LET row == iis_emit(cells, year.value, limit.value)
                                IN  IF row.ok
                                    THEN iis_loop_undated_ignored(trs, idx + 1,
                                            Append(rows, row.value), year.value, limit.value)
                                    ELSE row

RECURSIVE iis_loop(_, _, _, _, _)
iis_loop(trs, idx, rows, current_year, current_limit) ==
    IF idx >= Len(trs) THEN Ok([rows |-> rows])
    ELSE
        LET cells == Cells(trs[idx + 1])
            skip == iis_loop(trs, idx + 1, rows, current_year, current_limit)
        IN  IF idx < 3 THEN skip
            ELSE IF Len(cells) < 6 THEN skip
            ELSE IF all_empty(cells) THEN skip
            ELSE
                LET year == iis_year(At(cells, 0), current_year)
                IN  IF ~year.ok THEN year
                    ELSE
                        LET limit == iis_limit(At(cells, 1), current_limit)
                        IN  IF ~limit.ok THEN limit
                            ELSE IF At(cells, 2) = <<>>
                            THEN iis_loop(trs, idx + 1, rows, year.value, limit.value)
                            ELSE
                                LET row == iis_emit(cells, year.value, limit.value)
                                IN  IF row.ok
                                    THEN iis_loop(trs, idx + 1, Append(rows, row.value),
                                                  year.value, limit.value)
                                    ELSE row

parse_iis_contributions(d) ==
    LET table == find_table_with_headers(d, IisHeaders, None)
    IN  IF table = None THEN Err(TableNotFound("IISContributions"))
        ELSE iis_loop(d.tables[table[1]].rows, 0, <<>>, None, None)

-----------------------------------------------------------------------------
(* Metadata, parser.rs *)

\* "за период с"
RE_PERIOD_FROM == <<1079, 1072, 32, 1087, 1077, 1088, 1080, 1086, 1076, 32, 1089>>
\* "по"
RE_PERIOD_TO == <<1087, 1086>>
\* "дата создания"
RE_CREATED == <<1076, 1072, 1090, 1072, 32, 1089, 1086, 1079, 1076, 1072, 1085, 1080, 1103>>
\* "инвестор"
INVESTOR_LOWER == <<1080, 1085, 1074, 1077, 1089, 1090, 1086, 1088>>
\* "Инвестор:"
RE_INVESTOR == <<1048, 1085, 1074, 1077, 1089, 1090, 1086, 1088, 58>>
\* "Договор"
RE_CONTRACT == <<1044, 1086, 1075, 1086, 1074, 1086, 1088>>
\* "индивидуального инвестиционного счета"
IIS_LONG == <<1080, 1085, 1076, 1080, 1074, 1080, 1076, 1091, 1072, 1083, 1100, 1085, 1086, 1075, 1086, 32, 1080, 1085, 1074, 1077, 1089, 1090, 1080, 1094, 1080, 1086, 1085, 1085, 1086, 1075, 1086, 32, 1089, 1095, 1077, 1090, 1072>>
\* "иис"
IIS_SHORT == <<1080, 1080, 1089>>

NEWLINE == 10
LESS_THAN == 60
COMMA == 44

LitAt(s, i, lit) ==
    /\ i >= 1
    /\ i + Len(lit) - 1 <= Len(s)
    /\ SubSeq(s, i, i + Len(lit) - 1) = lit

\* the first index from i on that holds no whitespace (Len(s) + 1 at the end)
RECURSIVE SkipWs(_, _)
SkipWs(s, i) ==
    IF i <= Len(s) /\ is_whitespace(s[i]) THEN SkipWs(s, i + 1) ELSE i

\* \d{2}\.\d{2}\.\d{4} at i
DateShapeAt(s, i) ==
    /\ i + 9 <= Len(s)
    /\ s[i + 2] = DOT /\ s[i + 5] = DOT
    /\ \A k \in {0, 1, 3, 4, 6, 7, 8, 9} : IsDigit(s[i + k])

\* PERIOD_RE anchored at i: the three captured dates, or None
PeriodAt(s, i) ==
    LET a == i + Len(RE_PERIOD_FROM)
        d1 == SkipWs(s, a)
        b == d1 + 10
        po == SkipWs(s, b)
        c == po + Len(RE_PERIOD_TO)
        d2 == SkipWs(s, c)
        comma == d2 + 10
        cr == SkipWs(s, comma + 1)
        e == cr + Len(RE_CREATED)
        d3 == SkipWs(s, e)
    IN  IF /\ LitAt(s, i, RE_PERIOD_FROM)
           /\ d1 > a /\ DateShapeAt(s, d1)
           /\ po > b /\ LitAt(s, po, RE_PERIOD_TO)
           /\ d2 > c /\ DateShapeAt(s, d2)
           /\ comma <= Len(s) /\ s[comma] = COMMA
           /\ LitAt(s, cr, RE_CREATED)
           /\ d3 > e /\ DateShapeAt(s, d3)
        THEN Some(<<SubSeq(s, d1, d1 + 9), SubSeq(s, d2, d2 + 9), SubSeq(s, d3, d3 + 9)>>)
        ELSE None

\* PERIOD_RE.captures(text): the leftmost match
PeriodCaptures(s) ==
    LET hits == {i \in 1..Len(s) : PeriodAt(s, i) # None}
    IN  IF hits = {} THEN None
        ELSE PeriodAt(s, CHOOSE i \in hits : \A j \in hits : i <= j)

\* the longest run of [^\n<] from i on: the index after it
RECURSIVE SkipName(_, _)
SkipName(s, i) ==
    IF i <= Len(s) /\ s[i] \notin {NEWLINE, LESS_THAN} THEN SkipName(s, i + 1) ELSE i

\* INVESTOR_RE anchored at i: \s* is greedy and gives whitespace back (not a
\* line feed) to [^\n<]+ when nothing else follows it
InvestorAt(s, i) ==
    LET a == i + Len(RE_INVESTOR)
        ws == SkipWs(s, a)
        starts == {k \in a..ws : k <= Len(s) /\ s[k] \notin {NEWLINE, LESS_THAN}}
    IN  IF LitAt(s, i, RE_INVESTOR) /\ starts # {}
        THEN LET k == CHOOSE k \in starts : \A j \in starts : j <= k
             IN  Some(SubSeq(s, k, SkipName(s, k) - 1))
        ELSE None

IsAlnum(ch) == ch \in (48..57) \cup (65..90) \cup (97..122)

RECURSIVE SkipNonAlnum(_, _)
SkipNonAlnum(s, i) ==
    IF i <= Len(s) /\ ~IsAlnum(s[i]) THEN SkipNonAlnum(s, i + 1) ELSE i

RECURSIVE SkipAlnum(_, _)
SkipAlnum(s, i) ==
    IF i <= Len(s) /\ IsAlnum(s[i]) THEN SkipAlnum(s, i + 1) ELSE i

\* CONTRACT_RE anchored at i
ContractAt(s, i) ==
    LET a == SkipNonAlnum(s, i + Len(RE_CONTRACT))
    IN  IF LitAt(s, i, RE_CONTRACT) /\ a <= Len(s)
        THEN Some(SubSeq(s, a, SkipAlnum(s, a) - 1))
        ELSE None

\* capture_text(text, pattern) for the two patterns: group 1 of the leftmost match
capture_investor(text) ==
    LET hits == {i \in 1..Len(text) : InvestorAt(text, i) # None}
    IN  IF hits = {} THEN None
        ELSE InvestorAt(text, CHOOSE i \in hits : \A j \in hits : i <= j)

capture_contract(text) ==
    LET hits == {i \in 1..Len(text) : ContractAt(text, i) # None}
    IN  IF hits = {} THEN None
        ELSE ContractAt(text, CHOOSE i \in hits : \A j \in hits : i <= j)

to_uppercase_char(ch) ==
    IF ch \in 97..122 THEN ch - 32
    ELSE IF ch \in 1072..1103 THEN ch - 32
    ELSE IF ch = 1105 THEN 1025
    ELSE ch

\* str::split_whitespace
RECURSIVE split_whitespace(_)
split_whitespace(s) ==
    LET t == trim_start(s)
        RECURSIVE WordEnd(_)
        WordEnd(i) == IF i <= Len(t) /\ ~is_whitespace(t[i]) THEN WordEnd(i + 1) ELSE i
    IN  IF t = <<>> THEN <<>>
        ELSE <<SubSeq(t, 1, WordEnd(1) - 1)>> \o split_whitespace(SubSeq(t, WordEnd(1), Len(t)))

capitalize_word(word) ==
    IF word = <<>> THEN <<>>
    ELSE <<to_uppercase_char(Head(word))>> \o to_lowercase(Tail(word))

RECURSIVE join_space(_)
join_space(words) ==
    IF words = <<>> THEN <<>>
    ELSE IF Len(words) = 1 THEN words[1]
    ELSE words[1] \o <<SPACE>> \o join_space(Tail(words))

capitalize_words(s) ==
    LET words == split_whitespace(s)
    IN  join_space([i \in 1..Len(words) |-> capitalize_word(words[i])])

\* the first <p> whose text, lowercased, contains "инвестор"
investor_block(d) ==
    LET hits == {i \in 1..Len(d.p) : contains(to_lowercase(d.p[i]), INVESTOR_LOWER)}
    IN  IF hits = {} THEN None ELSE Some(d.p[CHOOSE i \in hits : \A j \in hits : i <= j])

\* the three dates of the heading, parsed in order
RECURSIVE parse_dates(_, _)
parse_dates(texts, acc) ==
    IF texts = <<>> THEN Ok(acc)
    ELSE
        LET r == parse_date(Head(texts))
        IN  IF r.ok THEN parse_dates(Tail(texts), Append(acc, r.value)) ELSE r

meta(d) ==
    IF d.h3 = <<>> THEN Err(MissingField("heading"))
    ELSE
        LET heading_text == collect_text(d.h3[1])
            period_caps == PeriodCaptures(heading_text)
            dates == parse_dates(period_caps[1], <<>>)
            block == investor_block(d)
            investor_text == block[1]
            name == capture_investor(investor_text)
            contract == capture_contract(investor_text)
            investor_lower == to_lowercase(investor_text)
        IN  IF period_caps = None THEN Err(RegexError(heading_text))
            ELSE IF ~dates.ok THEN dates
            ELSE IF block = None THEN Err(MissingField("investor"))
            ELSE IF name = None THEN Err(RegexError(investor_text))
            ELSE IF contract = None THEN Err(RegexError(investor_text))
            ELSE Ok([account_id |-> trim(contract[1]),
                     account_kind |->
                        IF contains(investor_lower, IIS_LONG) \/ contains(investor_lower, IIS_SHORT)
                        THEN "Iis" ELSE "Broker",
                     period_start |-> dates.value[1],
                     period_end |-> dates.value[2],
                     generated_at |-> dates.value[3],
                     investor_name |-> capitalize_words(trim(name[1])),
                     contract_number |-> trim(contract[1])])

-----------------------------------------------------------------------------
(* Report and ReportBuilder, report.rs *)

\* ParseOptions::everything()
everything ==
    [load_asset_valuation |-> TRUE, load_cash_flow |-> TRUE,
     load_portfolio |-> TRUE, load_iis_contributions |-> TRUE]

\* variant: table-not-found is propagated like any other error
parse_optional_not_found_fails(enabled, loaded) ==
    IF ~enabled THEN Ok(None)
    ELSE IF loaded.ok THEN Ok(Some(loaded.value))
    ELSE Err(loaded.err)

\* variant: every extractor error leaves the section absent
parse_optional_swallows(enabled, loaded) ==
    IF ~enabled THEN Ok(None)
    ELSE IF loaded.ok THEN Ok(Some(loaded.value))
    ELSE Ok(None)

\* variant: the extractor runs whatever the toggle says
parse_optional_always_loads(enabled, loaded) ==
    IF loaded.ok THEN Ok(Some(loaded.value))
    ELSE IF loaded.err.kind = "TableNotFound" THEN Ok(None)
    ELSE Err(loaded.err)

\* parse_optional(enabled, loader), `loaded` being what loader() returns
parse_optional(enabled, loaded) ==
    IF ~enabled THEN Ok(None)
    ELSE IF loaded.ok THEN Ok(Some(loaded.value))
    ELSE IF loaded.err.kind = "TableNotFound" THEN Ok(None)
    ELSE Err(loaded.err)

parse_with_options(d, opts) ==
    LET m == meta(d)
        asset_valuation == parse_optional(opts.load_asset_valuation, parse_asset_valuation(d))
        cash_flow_summary == parse_optional(opts.load_cash_flow, parse_cash_flow_summary(d))
        portfolio == parse_optional(opts.load_portfolio, parse_portfolio(d))
        iis_contributions ==
            parse_optional(opts.load_iis_contributions, parse_iis_contributions(d))
    IN  IF ~m.ok THEN m
        ELSE IF ~asset_valuation.ok THEN asset_valuation
        ELSE IF ~cash_flow_summary.ok THEN cash_flow_summary
        ELSE IF ~portfolio.ok THEN portfolio
        ELSE IF ~iis_contributions.ok THEN iis_contributions
        ELSE Ok([meta |-> m.value,
                 asset_valuation |-> asset_valuation.value,
                 cash_flow_summary |-> cash_flow_summary.value,
                 portfolio |-> portfolio.value,
                 iis_contributions |-> iis_contributions.value])

\* the four toggle setters of ReportBuilder
set_asset_valuation(opts, enabled) == [opts EXCEPT !.load_asset_valuation = enabled]
set_cash_flow(opts, enabled) == [opts EXCEPT !.load_cash_flow = enabled]
set_portfolio(opts, enabled) == [opts EXCEPT !.load_portfolio = enabled]
set_iis_contributions(opts, enabled) == [opts EXCEPT !.load_iis_contributions = enabled]

-----------------------------------------------------------------------------
(* ReportSet aggregation, report_set.rs *)

\* the position of a kind in the enum: #[derive(PartialOrd, Ord)]
KindOrd(kind) == CHOOSE i \in 1..Len(CashFlowKinds) : CashFlowKinds[i] = kind

\* String's Ord: lexicographic by code point
RECURSIVE StrLess(_, _)
StrLess(a, b) ==
    IF b = <<>> THEN FALSE
    ELSE IF a = <<>> THEN TRUE
    ELSE IF Head(a) # Head(b) THEN Head(a) < Head(b)
    ELSE StrLess(Tail(a), Tail(b))

\* the Ord of the key (CashFlowKind, String)
CashKeyLess(k1, k2) ==
    \/ KindOrd(k1[1]) < KindOrd(k2[1])
    \/ k1[1] = k2[1] /\ StrLess(k1[2], k2[2])

\* BTreeMap iteration: the keys in ascending order
RECURSIVE CashKeysSorted(_)
CashKeysSorted(keys) ==
    IF keys = {} THEN <<>>
    ELSE
        LET least == CHOOSE k \in keys : \A o \in keys \ {k} : CashKeyLess(k, o)
        IN  <<least>> \o CashKeysSorted(keys \ {least})

RECURSIVE StrKeysSorted(_)
StrKeysSorted(keys) ==
    IF keys = {} THEN <<>>
    ELSE
        LET least == CHOOSE k \in keys : \A o \in keys \ {k} : StrLess(k, o)
        IN  <<least>> \o StrKeysSorted(keys \ {least})

\* map.entry(key).or_insert(value): the map with the key present
or_insert(map, key, value) ==
    IF key \in DOMAIN map THEN map
    ELSE [k \in DOMAIN map \cup {key} |-> IF k = key THEN value ELSE map[k]]

EmptyMap == [k \in {} |-> {}]

\* variant: the description of the last row of a key is retained
cash_entry_last_description(map, row) ==
    LET key == <<row.kind, row.currency>>
        with == or_insert(map, key, <<ZERO, row.description_raw>>)
    IN  [with EXCEPT ![key] = <<DecAdd(@[1], row.amount), row.description_raw>>]

\* variant: the amount of a key already in the map is doubled before adding
cash_entry_compounds(map, row) ==
    LET key == <<row.kind, row.currency>>
        with == or_insert(map, key, <<ZERO, row.description_raw>>)
    IN  [with EXCEPT ![key] = <<DecAdd(DecAdd(@[1], @[1]), row.amount), @[2]>>]

\* one turn of the inner loop of merge_cash_flows
cash_entry(map, row) ==
    LET key == <<row.kind, row.currency>>
        with == or_insert(map, key, <<ZERO, row.description_raw>>)
    IN  [with EXCEPT ![key] = <<DecAdd(@[1], row.amount), @[2]>>]

RECURSIVE cash_rows_loop(_, _)
cash_rows_loop(rows, map) ==
    IF rows = <<>> THEN map
    ELSE cash_rows_loop(Tail(rows), cash_entry(map, Head(rows)))

RECURSIVE cash_reports_loop(_, _)
cash_reports_loop(rs, map) ==
    IF rs = <<>> THEN map
    ELSE
        LET report == Head(rs)
        IN  cash_reports_loop(Tail(rs),
                IF report.cash_flow_summary # None
                THEN cash_rows_loop(report.cash_flow_summary[1].rows, map)
                ELSE map)

merge_cash_flows(rs) ==
    LET map == cash_reports_loop(rs, EmptyMap)
        keys == CashKeysSorted(DOMAIN map)
    IN  [rows |-> [i \in 1..Len(keys) |->
                    [kind |-> keys[i][1],
                     description_raw |-> map[keys[i]][2],
                     amount |-> map[keys[i]][1],
                     currency |-> keys[i][2]]]]

\* variant: the price currency of the last occurrence is retained
position_entry_last_currency(map, pos) ==
    LET with == or_insert(map, pos.isin,
                    [isin |-> pos.isin, name |-> pos.name,
                     price_currency |-> pos.price_currency,
                     qty_start |-> ZERO, qty_end |-> ZERO,
                     value_start_no_ai |-> ZERO, value_end_no_ai |-> ZERO,
                     qty_delta |-> ZERO, value_delta |-> ZERO])
    IN  [with EXCEPT ![pos.isin] =
            [@ EXCEPT !.price_currency = pos.price_currency,
                      !.qty_start = DecAdd(@, pos.qty_start),
                      !.qty_end = DecAdd(@, pos.qty_end),
                      !.value_start_no_ai = DecAdd(@, pos.value_start_no_ai),
                      !.value_end_no_ai = DecAdd(@, pos.value_end_no_ai),
                      !.qty_delta = DecAdd(@, pos.qty_delta),
                      !.value_delta = DecAdd(@, pos.value_delta)]]

\* one turn of the innermost loop of merge_positions
position_entry(map, pos) ==
    LET with == or_insert(map, pos.isin,
                    [isin |-> pos.isin, name |-> pos.name,
                     price_currency |-> pos.price_currency,
                     qty_start |-> ZERO, qty_end |-> ZERO,
                     value_start_no_ai |-> ZERO, value_end_no_ai |-> ZERO,
                     qty_delta |-> ZERO, value_delta |-> ZERO])
    IN  [with EXCEPT ![pos.isin] =
            [@ EXCEPT !.qty_start = DecAdd(@, pos.qty_start),
                      !.qty_end = DecAdd(@, pos.qty_end),
                      !.value_start_no_ai = DecAdd(@, pos.value_start_no_ai),
                      !.value_end_no_ai = DecAdd(@, pos.value_end_no_ai),
                      !.qty_delta = DecAdd(@, pos.qty_delta),
                      !.value_delta = DecAdd(@, pos.value_delta)]]

RECURSIVE positions_loop(_, _)
positions_loop(positions, map) ==
    IF positions = <<>> THEN map
    ELSE positions_loop(Tail(positions), position_entry(map, Head(positions)))

RECURSIVE markets_loop(_, _)
markets_loop(markets, map) ==
    IF markets = <<>> THEN map
    ELSE markets_loop(Tail(markets), positions_loop(Head(markets).positions, map))

RECURSIVE position_reports_loop(_, _)
position_reports_loop(rs, map) ==
    IF rs = <<>> THEN map
    ELSE
        LET report == Head(rs)
        IN  position_reports_loop(Tail(rs),
                IF report.portfolio # None
                THEN markets_loop(report.portfolio[1].markets, map)
                ELSE map)

merge_positions(rs) ==
    LET map == position_reports_loop(rs, EmptyMap)
        keys == StrKeysSorted(DOMAIN map)
    IN  [i \in 1..Len(keys) |-> map[keys[i]]]

-----------------------------------------------------------------------------
(* Sample texts the input documents are built from *)

BLANK == <<>>
\* "a single space"
T_SP == <<32>>
\* "МБ"
T_MB == <<1052, 1041>>
\* "СПБ"
T_SPB == <<1057, 1055, 1041>>
\* "Оценка"
T_HEAD == <<1054, 1094, 1077, 1085, 1082, 1072>>
\* "Итого"
T_ITOGO == <<1048, 1090, 1086, 1075, 1086>>
\* "ИТОГО:"
T_ITOGO_UPPER == <<1048, 1058, 1054, 1043, 1054, 58>>
\* "x"
T_X == <<120>>
\* "0.5"
T_0_5 == <<48, 46, 53>>
\* "1.5"
T_1_5 == <<49, 46, 53>>
\* "-2"
T_M2 == <<45, 50>>
\* "2"
T_2 == <<50>>
\* "3"
T_3 == <<51>>
\* "+3"
T_P3 == <<43, 51>>
\* "7"
T_7 == <<55>>
\* "10"
T_10 == <<49, 48>>
\* "12"
T_12 == <<49, 50>>
\* "1 000.25 with a no-break space"
T_1000_25 == <<49, 160, 48, 48, 48, 46, 50, 53>>

Row(texts) == [i \in 1..Len(texts) |-> Td(texts[i])]
HeaderRow(texts) == [i \in 1..Len(texts) |-> Th(texts[i])]

\* all sequences over S of length at most n
SeqsUpTo(S, n) == UNION {[1..k -> S] : k \in 0..n}

NoDoc == [h3 |-> <<>>, p |-> <<>>, tables |-> <<>>]

-----------------------------------------------------------------------------
(* Valuation inputs *)

MaxValuationRows == 3

VR_A == Row(<<T_MB, T_10, BLANK, T_10, T_12, T_SP, T_12, T_2, T_0_5, T_1_5>>)
VR_B == Row(<<T_SPB, BLANK, T_3, T_3, BLANK, T_2, T_2, BLANK, T_3, T_M2>>)
VR_C == Row(<<T_MB, T_7, T_2, T_10, T_7, T_P3, T_10, BLANK, T_1_5, T_1000_25>>)
VR_BAD == Row(<<T_MB, T_10, BLANK, T_10, T_12, BLANK, T_12, T_2, BLANK, T_X>>)
VR_SHORT == Row(<<T_MB, T_7>>)
VR_NO_TD == HeaderRow(<<T_HEAD>>)
VR_TOTAL == Row(<<T_ITOGO, BLANK, BLANK, BLANK, BLANK, BLANK, BLANK, BLANK, BLANK, T_7>>)
VR_TOTAL_BLANK == Row(<<T_ITOGO_UPPER, T_SP>>)
VR_TOTAL_ONE == Row(<<T_ITOGO>>)

ValuationRowSamples ==
    {VR_A, VR_B, VR_C, VR_BAD, VR_SHORT, VR_NO_TD, VR_TOTAL, VR_TOTAL_BLANK,
     VR_TOTAL_ONE}

\* the leading rows: three header rows, three rows that look like data, or
\* only two rows (the first data row is then the third row of the table)
ValuationHeads ==
    { <<HeaderRow(<<T_HEAD>>), HeaderRow(<<T_HEAD>>), HeaderRow(<<T_HEAD>>)>>,
      <<HeaderRow(<<T_HEAD>>), VR_TOTAL, VR_A>>,
      <<HeaderRow(<<T_HEAD>>), HeaderRow(<<T_HEAD>>)>> }

RatingTable(rows) == [class |-> "RatingAssets", rows |-> rows]

ValuationDocs ==
    {NoDoc} \cup
    { [NoDoc EXCEPT !.tables = <<RatingTable(head \o data)>>] :
        head \in ValuationHeads, data \in SeqsUpTo(ValuationRowSamples, MaxValuationRows) }

-----------------------------------------------------------------------------
(* The state machine: the input is drawn at Init, an action applies one      *)
(* operation of the library to it.                                           *)

NoCall == [op |-> "none", arg |-> <<>>]
Call(op) == [op |-> op, arg |-> <<>>]

\* an extractor is applied to a document chosen from docs
InitExtractor(docs) ==
    /\ doc \in docs
    /\ options = everything
    /\ call = NoCall
    /\ result = <<>>
    /\ reports = <<>>
    /\ merged = <<>>

InitValuation == InitExtractor(ValuationDocs)

ParseAssetValuation ==
    /\ call = NoCall
    /\ call' = Call("parse_asset_valuation")
    /\ result' = parse_asset_valuation(doc)
    /\ UNCHANGED <<doc, options, reports, merged>>

SpecValuation == InitValuation /\ [][ParseAssetValuation]_vars

-----------------------------------------------------------------------------
(* Valuation claims *)

\* the sum of a sequence of Decimals, taken from the right
RECURSIVE SumDec(_)
SumDec(ds) == IF ds = <<>> THEN ZERO ELSE DecAdd(Head(ds), SumDec(Tail(ds)))

\* the rows of the valuation table of d (none when the table is missing)
ValuationTrs(d) ==
    LET rating == {i \in 1..Len(d.tables) : d.tables[i].class = "RatingAssets"}
    IN  IF rating = {} THEN <<>>
        ELSE d.tables[CHOOSE i \in rating : \A j \in rating : i <= j].rows

\* some row after the three leading rows has a first cell containing "итого"
HasSummaryRow(trs) ==
    \E i \in 4..Len(trs) :
        /\ Cells(trs[i]) # <<>>
        /\ contains(to_lowercase(Cells(trs[i])[1]), ITOGO)

ValuationDone == call.op = "parse_asset_valuation" /\ result.ok

\* C7: without a summary row, total_delta of a returned AssetValuation is the
\* sum of delta_total over the returned rows, in whatever order they are added
\* (zero when there are none).
C7_TotalDeltaIsSumOfRows ==
    (ValuationDone /\ ~HasSummaryRow(ValuationTrs(doc))) =>
        LET rows == result.value.rows
            n == Len(rows)
        IN  /\ n = 0 => result.value.total_delta = ZERO
            /\ \A perm \in Permutations(1..n) :
                  result.value.total_delta = SumDec([i \in 1..n |-> rows[perm[i]].delta_total])

C7_Witness ==
    /\ ValuationDone
    /\ ~HasSummaryRow(ValuationTrs(doc))
    /\ Len(result.value.rows) >= 2
    /\ result.value.rows[1].delta_total # result.value.rows[2].delta_total
    /\ result.value.total_delta # ZERO

ValuationCalled == call.op = "parse_asset_valuation"

\* the td cells of the rows after the three leading rows
ValuationCells(trs) == [i \in 1..(IF Len(trs) > 3 THEN Len(trs) - 3 ELSE 0) |-> Cells(trs[i + 3])]

IsSummaryCells(cells) == cells # <<>> /\ contains(to_lowercase(cells[1]), ITOGO)

\* a row with td cells, fewer than ten of them, that is no summary row
IsShortDataRow(tr) ==
    /\ Cells(tr) # <<>>
    /\ ~IsSummaryCells(Cells(tr))
    /\ Len(Cells(tr)) < 10

\* d with the short data rows after the three leading rows taken out of its
\* valuation table
WithoutShortRows(d) ==
    LET rating == {i \in 1..Len(d.tables) : d.tables[i].class = "RatingAssets"}
        first == CHOOSE i \in rating : \A j \in rating : i <= j
        trs == d.tables[first].rows
        kept == {i \in 1..Len(trs) : i <= 3 \/ ~IsShortDataRow(trs[i])}
        pick(k) == CHOOSE i \in kept : Cardinality({j \in kept : j < i}) = k - 1
    IN  IF rating = {} THEN d
        ELSE [d EXCEPT !.tables[first].rows = [k \in 1..Cardinality(kept) |-> trs[pick(k)]]]

\* C16: a row after the three leading rows whose first cell contains "итого"
\* in any letter case is never among the returned rows, whatever its number of
\* cells, and the last cell of the last such row (blank read as zero) is
\* total_delta, not the sum of the rows; rows of fewer than ten cells give
\* neither a row nor an error: the outcome is that of the table without them.
C16_SummaryRowSetsTheTotal ==
    ValuationCalled =>
        /\ result = parse_asset_valuation(WithoutShortRows(doc))
        /\ result.ok =>
               LET cs == ValuationCells(ValuationTrs(doc))
                   data == SelectSeq(cs, LAMBDA c : Len(c) >= 10 /\ ~IsSummaryCells(c))
                   sums == SelectSeq(cs, IsSummaryCells)
                   last == sums[Len(sums)]
                   rows == result.value.rows
               IN  /\ Len(rows) = Len(data)
                   /\ \A i \in 1..Len(rows) :
                          /\ rows[i].venue = data[i][1]
                          /\ Ok(rows[i].delta_total) = parse_money_or_zero(data[i][10], "Vsego izmenenie")
                   /\ sums # <<>> =>
                          Ok(result.value.total_delta) = parse_money_or_zero(last[Len(last)], "Itogo")

\* a blank summary cell of a two-cell summary row gives the total zero next to
\* a returned row with a delta and a short row
C16_Witness ==
    /\ ValuationDone
    /\ \E i \in 4..Len(ValuationTrs(doc)) : ValuationTrs(doc)[i] = VR_TOTAL_BLANK
    /\ \E i \in 4..Len(ValuationTrs(doc)) : ValuationTrs(doc)[i] = VR_SHORT
    /\ Len(result.value.rows) = 1
    /\ result.value.rows[1].delta_total # ZERO
    /\ result.value.total_delta = ZERO

-----------------------------------------------------------------------------
(* IIS contribution inputs *)

MaxIisRows == 3

\* "2023"
T_2023 == <<50, 48, 50, 51>>
\* "2024"
T_2024 == <<50, 48, 50, 52>>
\* "ограничений нет"
T_NO_LIMIT == <<1086, 1075, 1088, 1072, 1085, 1080, 1095, 1077, 1085, 1080, 1081, 32, 1085, 1077, 1090>>
\* "Ограничений нет"
T_NO_LIMIT_CAP == <<1054, 1075, 1088, 1072, 1085, 1080, 1095, 1077, 1085, 1080, 1081, 32, 1085, 1077, 1090>>
\* "15.03.2023"
T_15_03_2023 == <<49, 53, 46, 48, 51, 46, 50, 48, 50, 51>>
\* "20.06.2023"
T_20_06_2023 == <<50, 48, 46, 48, 54, 46, 50, 48, 50, 51>>
\* "Пополнение"
T_REASON == <<1055, 1086, 1087, 1086, 1083, 1085, 1077, 1085, 1080, 1077>>
\* "400"
T_400 == <<52, 48, 48>>

\* the scenario's first row: year, the sentinel as limit, dated
IR_FIRST == Row(<<T_2023, T_NO_LIMIT, T_15_03_2023, T_400, T_REASON, T_NO_LIMIT_CAP>>)
\* the scenario's second row: blank year and limit, dated
IR_INHERIT == Row(<<BLANK, T_SP, T_20_06_2023, T_7, T_REASON, BLANK>>)
\* a new year and a numeric limit, dated
IR_NEXT == Row(<<T_2024, T_1000_25, T_15_03_2023, T_12, T_REASON, T_10>>)
\* a new year and limit on a row without a date
IR_UNDATED == Row(<<T_2024, T_400, BLANK, BLANK, T_REASON, BLANK>>)
IR_BLANK == Row(<<BLANK, T_SP, BLANK, BLANK, BLANK, BLANK>>)
\* five cells only, with a year cell
IR_SHORT == Row(<<T_2024, T_12, T_15_03_2023, T_7, T_REASON>>)
IR_BAD_YEAR == Row(<<T_X, BLANK, BLANK, BLANK, BLANK, BLANK>>)
IR_BAD_DATE == Row(<<BLANK, BLANK, T_X, T_7, T_REASON, BLANK>>)
\* a year, no limit, dated
IR_YEAR_ONLY == Row(<<T_2023, BLANK, T_20_06_2023, T_7, T_REASON, T_3>>)
\* a limit that is no number on a dated row without a year
IR_BAD_LIMIT == Row(<<BLANK, T_X, T_15_03_2023, T_7, T_REASON, BLANK>>)

IisRowSamples ==
    {IR_FIRST, IR_INHERIT, IR_NEXT, IR_UNDATED, IR_BLANK, IR_SHORT, IR_BAD_YEAR, IR_BAD_DATE,
     IR_YEAR_ONLY, IR_BAD_LIMIT}

IisHeaderRow == HeaderRow(IisHeaders)

IisHeads ==
    { <<IisHeaderRow, HeaderRow(<<T_HEAD>>), HeaderRow(<<T_HEAD>>)>>,
      <<IisHeaderRow, IR_NEXT, IR_NEXT>> }

PlainTable(rows) == [class |-> "", rows |-> rows]

IisDocs ==
    {NoDoc} \cup
    { [NoDoc EXCEPT !.tables = <<PlainTable(head \o data)>>] :
        head \in IisHeads, data \in SeqsUpTo(IisRowSamples, MaxIisRows) }

InitIis == InitExtractor(IisDocs)

ParseIisContributions ==
    /\ call = NoCall
    /\ call' = Call("parse_iis_contributions")
    /\ result' = parse_iis_contributions(doc)
    /\ UNCHANGED <<doc, options, reports, merged>>

SpecIis == InitIis /\ [][ParseIisContributions]_vars

-----------------------------------------------------------------------------
(* IIS contribution claims *)

\* the elements of a set of numbers in ascending order
RECURSIVE Ascending(_)
Ascending(S) ==
    IF S = {} THEN <<>>
    ELSE LET least == CHOOSE i \in S : \A j \in S : i <= j
         IN  <<least>> \o Ascending(S \ {least})

\* the rows of the contribution table of d
IisTrs(d) == IF d.tables = <<>> THEN <<>> ELSE d.tables[1].rows

\* the data rows: after the three leading rows, six cells or more, not all blank
IisDataRows(trs) ==
    {i \in 4..Len(trs) : Len(Cells(trs[i])) >= 6 /\ ~all_empty(Cells(trs[i]))}

\* the data rows with a date, in table order: the rows that are emitted
IisDated(trs) == Ascending({i \in IisDataRows(trs) : At(Cells(trs[i]), 2) # <<>>})

\* the data rows up to i whose cell c is not blank
IisSetters(trs, i, c) ==
    {j \in IisDataRows(trs) : j <= i /\ At(Cells(trs[j]), c) # <<>>}

Latest(S) == CHOOSE i \in S : \A j \in S : j <= i

\* what a limit cell reads as
LimitOf(cell) ==
    IF contains(to_lowercase(cell), NO_LIMIT) THEN ZERO
    ELSE parse_money_or_zero(cell, "Limit IIS").value

IisDone == call.op = "parse_iis_contributions" /\ result.ok

IisScenarioDoc ==
    [NoDoc EXCEPT !.tables =
        <<PlainTable(<<IisHeaderRow, HeaderRow(<<T_HEAD>>), HeaderRow(<<T_HEAD>>),
                       IR_FIRST, IR_INHERIT>>)>>]

\* C8: each emitted row carries the year and the limit of the latest data row
\* at or before it whose year cell (limit cell) is not blank, emitted or not;
\* the two-row scenario yields two rows with year 2023 and limit_rub zero.
C8_YearAndLimitAreSticky ==
    /\ IisDone =>
        LET trs == IisTrs(doc)
            dated == IisDated(trs)
            rows == result.value.rows
        IN  /\ Len(rows) = Len(dated)
            /\ \A k \in 1..Len(rows) :
                LET years == IisSetters(trs, dated[k], 0)
                    limits == IisSetters(trs, dated[k], 1)
                IN  /\ years # {}
                    /\ Some(rows[k].year) = I32FromStr(At(Cells(trs[Latest(years)]), 0))
                    /\ limits # {} =>
                        rows[k].limit_rub = LimitOf(At(Cells(trs[Latest(limits)]), 1))
    /\ (call.op = "parse_iis_contributions" /\ doc = IisScenarioDoc) =>
        /\ result.ok
        /\ Len(result.value.rows) = 2
        /\ \A k \in 1..2 :
            result.value.rows[k].year = 2023 /\ result.value.rows[k].limit_rub = ZERO

\* a row inherits a year and a non-zero limit set by an undated row before it
C8_Witness ==
    /\ IisDone
    /\ \E k \in 1..Len(result.value.rows) :
        LET trs == IisTrs(doc)
            src == IisDated(trs)[k]
            years == IisSetters(trs, src, 0)
            limits == IisSetters(trs, src, 1)
        IN  /\ years # {} /\ Latest(years) < src
            /\ limits # {} /\ Latest(limits) < src
            /\ At(Cells(trs[Latest(limits)]), 2) = <<>>
            /\ result.value.rows[k].limit_rub # ZERO

\* the rows without a date that set cell c (0: year, 1: limit) for row i:
\* data rows before i with the cell filled and no later data row up to i
\* filling it again
UndatedSetters(trs, i, c) ==
    {j \in IisSetters(trs, i, c) :
        /\ At(Cells(trs[j]), 2) = <<>>
        /\ j = Latest(IisSetters(trs, i, c))}

\* C18: the emitted rows are, one for one and in table order, the data rows
\* (after the three leading rows, six cells or more, not all blank) whose date
\* cell is not blank, each with its own date, amount and reason; a data row
\* with a blank date cell is not emitted, and the year and limit it sets are
\* those of the rows emitted after it.
C18_DatedRowsAreEmitted ==
    IisDone =>
        LET trs == IisTrs(doc)
            dated == IisDated(trs)
            rows == result.value.rows
        IN  /\ Len(rows) = Len(dated)
            /\ \A k \in 1..Len(rows) :
                   LET cells == Cells(trs[dated[k]])
                   IN  /\ Ok(rows[k].date) = parse_date(At(cells, 2))
                       /\ Ok(rows[k].amount) = parse_money_or_zero(At(cells, 3), "Summa IIS")
                       /\ rows[k].operation_reason = At(cells, 4)
                       /\ \A j \in UndatedSetters(trs, dated[k], 0) :
                              Some(rows[k].year) = I32FromStr(At(Cells(trs[j]), 0))
                       /\ \A j \in UndatedSetters(trs, dated[k], 1) :
                              rows[k].limit_rub = LimitOf(At(Cells(trs[j]), 1))

\* two emitted rows with a row without a date between them, which changes the
\* year and the limit of the second
C18_Witness ==
    /\ IisDone
    /\ Len(IisTrs(doc)) = 6
    /\ IisDated(IisTrs(doc)) = <<4, 6>>
    /\ IisTrs(doc)[5] = IR_UNDATED
    /\ Len(result.value.rows) = 2
    /\ result.value.rows[1].year = 2023
    /\ result.value.rows[2].year = 2024
    /\ result.value.rows[1].limit_rub # result.value.rows[2].limit_rub

IsSentinel(cell) == contains(to_lowercase(cell), NO_LIMIT)

\* C19: a limit cell or remaining-limit cell containing "ограничений нет" in
\* any letter case is read as zero and is never the text of a Number error; a
\* sentinel in the limit cell makes the limit zero for its row and for the
\* rows after it whose limit cell is blank.
C19_NoLimitSentinelIsZero ==
    /\ (call.op = "parse_iis_contributions" /\ ~result.ok /\ result.err.kind = "Number") =>
           ~IsSentinel(result.err.value)
    /\ IisDone =>
           LET trs == IisTrs(doc)
               dated == IisDated(trs)
               rows == result.value.rows
           IN  \A k \in 1..Len(rows) :
                   LET limits == IisSetters(trs, dated[k], 1)
                   IN  /\ IsSentinel(At(Cells(trs[dated[k]]), 5)) =>
                              rows[k].remaining_limit = ZERO
                       /\ (limits # {} /\ IsSentinel(At(Cells(trs[Latest(limits)]), 1))) =>
                              rows[k].limit_rub = ZERO

\* a row with the sentinel in both cells, then a row with a blank limit cell
\* that takes the zero limit from it
C19_Witness ==
    /\ IisDone
    /\ \E k \in 2..Len(result.value.rows) :
           LET trs == IisTrs(doc)
               dated == IisDated(trs)
               limits == IisSetters(trs, dated[k], 1)
           IN  /\ At(Cells(trs[dated[k]]), 1) = <<>>
               /\ limits # {}
               /\ Latest(limits) = dated[k - 1]
               /\ IsSentinel(At(Cells(trs[dated[k - 1]]), 1))
               /\ IsSentinel(At(Cells(trs[dated[k - 1]]), 5))
               /\ result.value.rows[k].limit_rub = ZERO
               /\ result.value.rows[k - 1].remaining_limit = ZERO

IisCalled == call.op = "parse_iis_contributions"

\* the loop gets to row i: the rows before it give no error
IisReached(trs, i) == iis_loop(SubSeq(trs, 1, i - 1), 0, <<>>, None, None).ok

\* the limit cell of a row is blank, the sentinel or a number
LimitReadable(cell) ==
    cell = <<>> \/ IsSentinel(cell) \/ parse_money_or_zero(cell, "Limit IIS").ok

\* the year, date, amount and remaining-limit cells of a row can be read
RowReadable(cells) ==
    /\ At(cells, 0) = <<>> \/ I32FromStr(trim(At(cells, 0))) # None
    /\ parse_date(At(cells, 2)).ok
    /\ parse_money_or_zero(At(cells, 3), "Summa IIS").ok
    /\ IsSentinel(At(cells, 5)) \/ parse_money_or_zero(At(cells, 5), "Ostatok limita").ok

\* C21: a dated row the loop gets to before any year cell was filled ends the
\* extraction with MissingField "God" and no rows, whatever its date cell
\* holds; a dated row before any filled limit cell is emitted with limit_rub
\* zero, so that a table ending with such a row is returned; a filled year
\* cell that is no integer ends the extraction with the Number error of
\* column "God", also on a row without a date.
C21_MissingYearFailsMissingLimitIsZero ==
    IisCalled =>
        LET trs == IisTrs(doc)
            dated == IisDated(trs)
        IN  /\ \A k \in 1..Len(dated) :
                   (/\ IisSetters(trs, dated[k], 0) = {}
                    /\ IisReached(trs, dated[k])
                    /\ LimitReadable(At(Cells(trs[dated[k]]), 1)))
                       => result = Err(MissingField("God"))
            /\ \A i \in IisDataRows(trs) :
                   (/\ At(Cells(trs[i]), 0) # <<>>
                    /\ I32FromStr(trim(At(Cells(trs[i]), 0))) = None
                    /\ IisReached(trs, i))
                       => result = Err(NumberError(At(Cells(trs[i]), 0), "God"))
            /\ \A k \in 1..Len(dated) :
                   (/\ IisSetters(trs, dated[k], 1) = {}
                    /\ IisSetters(trs, dated[k], 0) # {}
                    /\ IisReached(trs, dated[k])
                    /\ RowReadable(Cells(trs[dated[k]]))
                    /\ dated[k] = Len(trs))
                       => result.ok
            /\ result.ok =>
                   \A k \in 1..Len(dated) :
                       IisSetters(trs, dated[k], 1) = {} =>
                           result.value.rows[k].limit_rub = ZERO

\* a dated row with a year and no limit before it is emitted with limit zero
\* and a limit that is not the remaining limit
C21_Witness ==
    /\ IisDone
    /\ Len(result.value.rows) >= 1
    /\ IisSetters(IisTrs(doc), IisDated(IisTrs(doc))[1], 1) = {}
    /\ result.value.rows[1].limit_rub = ZERO
    /\ result.value.rows[1].remaining_limit # ZERO

-----------------------------------------------------------------------------
(* Portfolio inputs *)

MaxPortfolioRows == 3

\* "Газпром"
T_GAZPROM == <<1043, 1072, 1079, 1087, 1088, 1086, 1084>>
\* "Сбер"
T_SBER == <<1057, 1073, 1077, 1088>>
\* "RU0007661625"
T_ISIN_1 == <<82, 85, 48, 48, 48, 55, 54, 54, 49, 54, 50, 53>>
\* "RU0009029540"
T_ISIN_2 == <<82, 85, 48, 48, 48, 57, 48, 50, 57, 53, 52, 48>>
\* "RUB"
T_RUB == <<82, 85, 66>>
\* "USD"
T_USD == <<85, 83, 68>>
\* "Площадка: МБ"
T_MARK_MB == <<1055, 1083, 1086, 1097, 1072, 1076, 1082, 1072, 58, 32, 1052, 1041>>
\* "Площадка СПБ"
T_MARK_SPB == <<1055, 1083, 1086, 1097, 1072, 1076, 1082, 1072, 32, 1057, 1055, 1041>>

PR_A ==
    Row(<<T_GAZPROM, T_ISIN_1, T_RUB,
          T_10, T_1_5, T_2, T_12, BLANK,
          T_7, T_1_5, T_3, T_1000_25, T_0_5,
          T_M2, T_400, T_P3, T_SP, T_7>>)
PR_B ==
    Row(<<T_SBER, T_ISIN_2, T_USD,
          T_2, BLANK, T_3, T_7, T_0_5,
          T_3, BLANK, T_2, T_10, T_1_5,
          T_12, T_M2, BLANK, BLANK, T_3>>)
PR_BAD ==
    Row(<<T_SBER, T_ISIN_2, T_RUB,
          T_2, BLANK, T_3, T_7, T_0_5,
          T_X, BLANK, T_2, T_10, T_1_5,
          T_12, T_M2, BLANK, BLANK, T_3>>)
\* seventeen cells
PR_SHORT ==
    Row(<<T_SBER, T_ISIN_2, T_USD,
          T_2, BLANK, T_3, T_7, T_0_5,
          T_3, BLANK, T_2, T_10, T_1_5,
          T_12, T_M2, BLANK, BLANK>>)
PR_NO_TD == HeaderRow(<<T_HEAD>>)
PR_MARK_MB == Row(<<T_MARK_MB>>)
PR_MARK_SPB == Row(<<T_MARK_SPB, BLANK>>)

PortfolioRowSamples ==
    {PR_A, PR_B, PR_BAD, PR_SHORT, PR_NO_TD, PR_MARK_MB, PR_MARK_SPB}

PortfolioHeaderRow == HeaderRow(PortfolioHeaders)

PortfolioHeads ==
    { <<PortfolioHeaderRow, HeaderRow(<<T_HEAD>>), HeaderRow(<<T_HEAD>>)>>,
      <<HeaderRow(<<T_HEAD>>), PortfolioHeaderRow, PR_A>> }

PortfolioDocs ==
    {NoDoc} \cup
    { [NoDoc EXCEPT !.tables = <<PlainTable(head \o data)>>] :
        head \in PortfolioHeads, data \in SeqsUpTo(PortfolioRowSamples, MaxPortfolioRows) }

InitPortfolio == InitExtractor(PortfolioDocs)

ParsePortfolio ==
    /\ call = NoCall
    /\ call' = Call("parse_portfolio")
    /\ result' = parse_portfolio(doc)
    /\ UNCHANGED <<doc, options, reports, merged>>

SpecPortfolio == InitPortfolio /\ [][ParsePortfolio]_vars

-----------------------------------------------------------------------------
(* Portfolio claims *)

PortfolioTrs(d) == IF d.tables = <<>> THEN <<>> ELSE d.tables[1].rows

\* the marker rows after the three leading rows
MarkerRows(trs) ==
    {i \in 4..Len(trs) :
        Cells(trs[i]) # <<>> /\ starts_with(Cells(trs[i])[1], PLOSHCHADKA)}

\* the data rows with eighteen cells or more
PositionRows(trs) ==
    {i \in 4..Len(trs) : i \notin MarkerRows(trs) /\ Len(Cells(trs[i])) >= 18}

\* the position a data row decodes to
PositionOf(tr) ==
    SecurityPosition(Cells(tr), parse_money_cells(Cells(tr), PortfolioColumns, <<>>).value)

\* the data rows between marker m (0: the start of the table) and the next marker
Segment(trs, m) ==
    {i \in PositionRows(trs) : i > m /\ \A n \in MarkerRows(trs) : n > m => i < n}

PositionsOf(trs, rows) ==
    LET order == Ascending(rows)
    IN  [k \in 1..Len(order) |-> PositionOf(trs[order[k]])]

\* the number of positions of a sequence of markets
RECURSIVE SumLen(_)
SumLen(markets) ==
    IF markets = <<>> THEN 0 ELSE Len(Head(markets).positions) + SumLen(Tail(markets))

PortfolioDone == call.op = "parse_portfolio" /\ result.ok

\* C9: the markets are the segments the marker rows cut the table into, in
\* table order: one market per marker row, holding the decoded data rows up to
\* the next marker in table order, preceded by a market "Неизвестно" holding
\* the data rows before the first marker when there are any; every data row
\* is one position of one market.
C9_MarketsPartitionTheTable ==
    PortfolioDone =>
        LET trs == PortfolioTrs(doc)
            markers == Ascending(MarkerRows(trs))
            unknown == Segment(trs, 0)
            off == IF unknown = {} THEN 0 ELSE 1
            markets == result.value.markets
            total == SumLen(markets)
        IN  /\ Len(markets) = Len(markers) + off
            /\ off = 1 =>
                /\ markets[1].name = NEIZVESTNO
                /\ markets[1].positions = PositionsOf(trs, unknown)
            /\ \A k \in 1..Len(markers) :
                markets[k + off].positions = PositionsOf(trs, Segment(trs, markers[k]))
            /\ total = Cardinality(PositionRows(trs))

\* rows before the first marker, then a marker followed by a row
C9_Witness ==
    /\ PortfolioDone
    /\ Len(result.value.markets) >= 2
    /\ result.value.markets[1].name = NEIZVESTNO
    /\ result.value.markets[2].positions # <<>>

\* the first cell of a marker row without the prefix "Площадка", without the
\* colon when one follows the prefix, trimmed
NameAfterPrefix(cell) ==
    LET prefix == IF starts_with(cell, PLOSHCHADKA_COLON) THEN PLOSHCHADKA_COLON
                  ELSE PLOSHCHADKA
    IN  trim(SubSeq(cell, Len(prefix) + 1, Len(cell)))

\* C17: every row after the three leading rows whose first cell starts with
\* "Площадка", followed by a colon or not, opens a market named by the rest of
\* that cell, trimmed; the marker row itself gives no position, whatever its
\* number of cells.
C17_MarkerRowNamesTheMarket ==
    PortfolioDone =>
        LET trs == PortfolioTrs(doc)
            markers == Ascending(MarkerRows(trs))
            markets == result.value.markets
            off == Len(markets) - Len(markers)
        IN  /\ off \in {0, 1}
            /\ \A k \in 1..Len(markers) :
                   markets[k + off].name = NameAfterPrefix(Cells(trs[markers[k]])[1])
            /\ SumLen(markets) = Cardinality(PositionRows(trs))

-----------------------------------------------------------------------------
(* Table locator inputs *)

MaxHeaderRows == 2
MaxLocatorTables == 2
MaxDepth == 2

\* "Наименование"
T_H_NAME == <<1053, 1072, 1080, 1084, 1077, 1085, 1086, 1074, 1072, 1085, 1080, 1077>>
\* "ISIN ценной бумаги"
T_H_ISIN == <<73, 83, 73, 78, 32, 1094, 1077, 1085, 1085, 1086, 1081, 32, 1073, 1091, 1084, 1072, 1075, 1080>>
\* "Рыночная цена"
T_H_PRICE == <<1056, 1099, 1085, 1086, 1095, 1085, 1072, 1103, 32, 1094, 1077, 1085, 1072>>
\* "Рыночная стоимость, без НКД"
T_H_VALUE == <<1056, 1099, 1085, 1086, 1095, 1085, 1072, 1103, 32, 1089, 1090, 1086, 1080, 1084, 1086, 1089, 1090, 1100, 44, 32, 1073, 1077, 1079, 32, 1053, 1050, 1044>>
\* "Плановые зачисления по сделкам, шт"
T_H_PLANNED == <<1055, 1083, 1072, 1085, 1086, 1074, 1099, 1077, 32, 1079, 1072, 1095, 1080, 1089, 1083, 1077, 1085, 1080, 1103, 32, 1087, 1086, 32, 1089, 1076, 1077, 1083, 1082, 1072, 1084, 44, 32, 1096, 1090>>

\* a header row holding every phrase of PortfolioHeaders
LR_ALL == Row(<<T_H_NAME, T_H_ISIN, T_H_PRICE, T_H_VALUE, T_H_PLANNED>>)
\* the upper row of a two-row header: the columns that span both rows
LR_UPPER == Row(<<T_H_NAME, T_H_ISIN>>)
\* the lower row of a two-row header: the sub-columns
LR_LOWER == Row(<<T_H_PRICE, T_H_VALUE, T_H_PLANNED>>)

LocatorRowSamples == {LR_ALL, LR_UPPER, LR_LOWER}

LocatorTables == {PlainTable(rows) : rows \in SeqsUpTo(LocatorRowSamples, MaxHeaderRows)}

LocatorDocs ==
    UNION { {[NoDoc EXCEPT !.tables = tables] : tables \in [1..n -> LocatorTables]} :
            n \in 1..MaxLocatorTables }

\* custom_header_depth: None or Some(depth)
Depths == {None} \cup {Some(n) : n \in 0..MaxDepth}

InitLocator == InitExtractor(LocatorDocs)

FindTable(custom_header_depth) ==
    /\ call = NoCall
    /\ call' = [op |-> "find_table_with_headers", arg |-> custom_header_depth]
    /\ result' = find_table_with_headers(doc, PortfolioHeaders, custom_header_depth)
    /\ UNCHANGED <<doc, options, reports, merged>>

NextLocator == \E custom_header_depth \in Depths : FindTable(custom_header_depth)

SpecLocator == InitLocator /\ [][NextLocator]_vars

-----------------------------------------------------------------------------
(* Table locator claims *)

\* some cell of the row contains the phrase
PhraseInRow(tr, phrase) ==
    \E c \in 1..Len(tr) : contains(collect_text(tr[c].text), phrase)

RowHoldsAll(tr, phrases) == \A t \in 1..Len(phrases) : PhraseInRow(tr, phrases[t])

\* every phrase is in the first or the second row, and neither row has all
SplitOverTwoRows(table, phrases) ==
    /\ Len(table.rows) >= 2
    /\ \A t \in 1..Len(phrases) :
        PhraseInRow(table.rows[1], phrases[t]) \/ PhraseInRow(table.rows[2], phrases[t])
    /\ ~RowHoldsAll(table.rows[1], phrases)
    /\ ~RowHoldsAll(table.rows[2], phrases)

LocatorDone == call.op = "find_table_with_headers"

\* C10: a table whose required phrases are split over its first two header
\* rows is returned at depth 2 and is not returned at the default depth.
C10_SplitHeadersFoundAtDepthTwo ==
    (LocatorDone /\ SplitOverTwoRows(doc.tables[1], PortfolioHeaders)) =>
        /\ call.arg = Some(2) => result = Some(1)
        /\ call.arg = None => result # Some(1)

-----------------------------------------------------------------------------
(* Report inputs: a heading, an investor paragraph and, for each section,    *)
(* no table, a table that decodes, or a table with a cell that does not.     *)

\* "Отчет брокера за период с 01.01.2024 по 31.03.2024, дата создания 01.04.2024"
H3_OK == <<1054, 1090, 1095, 1077, 1090, 32, 1073, 1088, 1086, 1082, 1077, 1088, 1072, 32, 1079, 1072, 32, 1087, 1077, 1088, 1080, 1086, 1076, 32, 1089, 32, 48, 49, 46, 48, 49, 46, 50, 48, 50, 52, 32, 1087, 1086, 32, 51, 49, 46, 48, 51, 46, 50, 48, 50, 52, 44, 32, 1076, 1072, 1090, 1072, 32, 1089, 1086, 1079, 1076, 1072, 1085, 1080, 1103, 32, 48, 49, 46, 48, 52, 46, 50, 48, 50, 52>>
\* "Отчет брокера"
H3_NO_PERIOD == <<1054, 1090, 1095, 1077, 1090, 32, 1073, 1088, 1086, 1082, 1077, 1088, 1072>>
\* "Отчет брокера за период с 01.01.2024 по 31.02.2024, дата создания 01.04.2024"
H3_BAD_DATE == <<1054, 1090, 1095, 1077, 1090, 32, 1073, 1088, 1086, 1082, 1077, 1088, 1072, 32, 1079, 1072, 32, 1087, 1077, 1088, 1080, 1086, 1076, 32, 1089, 32, 48, 49, 46, 48, 49, 46, 50, 48, 50, 52, 32, 1087, 1086, 32, 51, 49, 46, 48, 50, 46, 50, 48, 50, 52, 44, 32, 1076, 1072, 1090, 1072, 32, 1089, 1086, 1079, 1076, 1072, 1085, 1080, 1103, 32, 48, 49, 46, 48, 52, 46, 50, 48, 50, 52>>
\* "Инвестор: петр петров / Договор: 100ABC, on two lines"
P_INVESTOR == <<1048, 1085, 1074, 1077, 1089, 1090, 1086, 1088, 58, 32, 1087, 1077, 1090, 1088, 32, 1087, 1077, 1090, 1088, 1086, 1074, 10, 1044, 1086, 1075, 1086, 1074, 1086, 1088, 58, 32, 49, 48, 48, 65, 66, 67>>
\* "Инвестор петр"
P_NO_COLON == <<1048, 1085, 1074, 1077, 1089, 1090, 1086, 1088, 32, 1087, 1077, 1090, 1088>>
\* "Отчет брокера"
P_OTHER == <<1054, 1090, 1095, 1077, 1090, 32, 1073, 1088, 1086, 1082, 1077, 1088, 1072>>
\* "Входящий остаток"
T_OPENING == <<1042, 1093, 1086, 1076, 1103, 1097, 1080, 1081, 32, 1086, 1089, 1090, 1072, 1090, 1086, 1082>>
\* "Комиссия брокера"
T_FEE == <<1050, 1086, 1084, 1080, 1089, 1089, 1080, 1103, 32, 1073, 1088, 1086, 1082, 1077, 1088, 1072>>

\* <<h3 texts, p texts>>: one that meta() accepts, and one per way it fails
MetaSamples ==
    { << <<H3_OK>>, <<P_OTHER, P_INVESTOR>> >>,
      << <<>>, <<P_INVESTOR>> >>,
      << <<H3_NO_PERIOD, H3_OK>>, <<P_INVESTOR>> >>,
      << <<H3_BAD_DATE>>, <<P_INVESTOR>> >>,
      << <<H3_OK>>, <<P_OTHER>> >>,
      << <<H3_OK>>, <<P_NO_COLON>> >> }

StdHead == <<HeaderRow(<<T_HEAD>>), HeaderRow(<<T_HEAD>>), HeaderRow(<<T_HEAD>>)>>

CashFlowHeaderRow == HeaderRow(CashFlowHeaders)
CR_OPENING == Row(<<T_OPENING, T_1_5, T_RUB>>)
CR_FEE == Row(<<T_FEE, T_M2, T_RUB>>)
CR_BAD == Row(<<T_FEE, T_X, T_RUB>>)

\* per section: <<>> (no table) or <<table>>
ValuationTables ==
    { <<>>,
      <<RatingTable(StdHead \o <<VR_A, VR_TOTAL>>)>>,
      <<RatingTable(StdHead \o <<VR_A, VR_BAD>>)>> }

CashFlowTables ==
    { <<>>,
      <<PlainTable(<<CashFlowHeaderRow, HeaderRow(<<T_HEAD>>), CR_OPENING, CR_FEE>>)>>,
      <<PlainTable(<<CashFlowHeaderRow, HeaderRow(<<T_HEAD>>), CR_OPENING, CR_BAD>>)>> }

PortfolioTables ==
    { <<>>,
      <<PlainTable(<<PortfolioHeaderRow, HeaderRow(<<T_HEAD>>), HeaderRow(<<T_HEAD>>),
                     PR_MARK_MB, PR_A>>)>>,
      <<PlainTable(<<PortfolioHeaderRow, HeaderRow(<<T_HEAD>>), HeaderRow(<<T_HEAD>>),
                     PR_A, PR_BAD>>)>> }

\* the contribution table fails with a bad number, a bad date or a missing year
IisTables ==
    { <<>>,
      <<PlainTable(<<IisHeaderRow, HeaderRow(<<T_HEAD>>), HeaderRow(<<T_HEAD>>),
                     IR_FIRST, IR_INHERIT>>)>>,
      <<PlainTable(<<IisHeaderRow, HeaderRow(<<T_HEAD>>), HeaderRow(<<T_HEAD>>),
                     IR_FIRST, IR_BAD_YEAR>>)>>,
      <<PlainTable(<<IisHeaderRow, HeaderRow(<<T_HEAD>>), HeaderRow(<<T_HEAD>>),
                     IR_FIRST, IR_BAD_DATE>>)>>,
      <<PlainTable(<<IisHeaderRow, HeaderRow(<<T_HEAD>>), HeaderRow(<<T_HEAD>>),
                     IR_INHERIT>>)>> }

ReportDocs ==
    { [h3 |-> m[1], p |-> m[2], tables |-> v \o c \o pf \o i] :
        m \in MetaSamples, v \in ValuationTables, c \in CashFlowTables,
        pf \in PortfolioTables, i \in IisTables }

-----------------------------------------------------------------------------
(* The builder's state machine: ReportBuilder::new(raw), any number of       *)
(* toggle calls, then parse(), which consumes the builder.                   *)

InitReport ==
    /\ doc \in ReportDocs
    /\ options = everything
    /\ call = Call("new")
    /\ result = <<>>
    /\ reports = <<>>
    /\ merged = <<>>

BuilderAlive == call.op # "parse"

Toggle(op, opts, enabled) ==
    /\ BuilderAlive
    /\ options' = opts
    /\ call' = [op |-> op, arg |-> enabled]
    /\ UNCHANGED <<doc, result, reports, merged>>

AssetValuation(enabled) == Toggle("asset_valuation", set_asset_valuation(options, enabled), enabled)
CashFlow(enabled) == Toggle("cash_flow", set_cash_flow(options, enabled), enabled)
Portfolio(enabled) == Toggle("portfolio", set_portfolio(options, enabled), enabled)
IisContributions(enabled) ==
    Toggle("iis_contributions", set_iis_contributions(options, enabled), enabled)

Parse ==
    /\ BuilderAlive
    /\ call' = Call("parse")
    /\ result' = parse_with_options(doc, options)
    /\ UNCHANGED <<doc, options, reports, merged>>

NextReport ==
    \/ \E enabled \in BOOLEAN : AssetValuation(enabled)
    \/ \E enabled \in BOOLEAN : CashFlow(enabled)
    \/ \E enabled \in BOOLEAN : Portfolio(enabled)
    \/ \E enabled \in BOOLEAN : IisContributions(enabled)
    \/ Parse

SpecReport == InitReport /\ [][NextReport]_vars

-----------------------------------------------------------------------------
(* Report claims *)

Sections == <<"asset_valuation", "cash_flow_summary", "portfolio", "iis_contributions">>

\* what the extractor of section k returns on the document
Extracted(k, d) ==
    CASE k = 1 -> parse_asset_valuation(d)
      [] k = 2 -> parse_cash_flow_summary(d)
      [] k = 3 -> parse_portfolio(d)
      [] k = 4 -> parse_iis_contributions(d)

\* the toggle of section k
Enabled(k, opts) ==
    CASE k = 1 -> opts.load_asset_valuation
      [] k = 2 -> opts.load_cash_flow
      [] k = 3 -> opts.load_portfolio
      [] k = 4 -> opts.load_iis_contributions

NotFound(k, d) == ~Extracted(k, d).ok /\ Extracted(k, d).err.kind = "TableNotFound"

\* the extractor fails with an error other than table-not-found
HardFailure(k, d) == ~Extracted(k, d).ok /\ Extracted(k, d).err.kind # "TableNotFound"

ParseDone == call.op = "parse"

\* C1: with metadata extracted and no enabled section failing hard, parsing
\* succeeds; in the returned Report every enabled section whose extractor
\* reports table-not-found is None and every enabled section whose extractor
\* succeeds is Some of the extracted value, whatever the other sections are.
C1_AbsentSectionIsNotAnError ==
    ParseDone =>
        /\ (meta(doc).ok /\ \A k \in 1..4 : ~(Enabled(k, options) /\ HardFailure(k, doc)))
               => result.ok
        /\ result.ok =>
               \A k \in 1..4 :
                   Enabled(k, options) =>
                       /\ NotFound(k, doc) => result.value[Sections[k]] = None
                       /\ Extracted(k, doc).ok =>
                              result.value[Sections[k]] = Some(Extracted(k, doc).value)

\* a successful parse with one enabled section not found and another present
C1_Witness ==
    /\ ParseDone
    /\ result.ok
    /\ \E j, k \in 1..4 :
        /\ Enabled(j, options) /\ NotFound(j, doc) /\ result.value[Sections[j]] = None
        /\ Enabled(k, options) /\ Extracted(k, doc).ok
        /\ result.value[Sections[k]] # None

\* the stages that abort the parse, 0 being the metadata
FailedStages(d, opts) ==
    {k \in 0..4 : IF k = 0 THEN ~meta(d).ok ELSE Enabled(k, opts) /\ HardFailure(k, d)}

FirstFailed(d, opts) ==
    CHOOSE k \in FailedStages(d, opts) : \A j \in FailedStages(d, opts) : k <= j

StageError(k, d) == IF k = 0 THEN meta(d).err ELSE Extracted(k, d).err

\* C2: the result of a parse is either a Report with all five fields or an
\* error and nothing else; when the metadata or an enabled section fails with
\* an error other than table-not-found, the result is the error of the first
\* stage that failed and no Report, even when the earlier sections decoded.
C2_ErrorOrCompleteReport ==
    ParseDone =>
        /\ result.ok =>
               /\ DOMAIN result = {"ok", "value"}
               /\ DOMAIN result.value =
                      {"meta", "asset_valuation", "cash_flow_summary", "portfolio",
                       "iis_contributions"}
        /\ ~result.ok => DOMAIN result = {"ok", "err"}
        /\ FailedStages(doc, options) # {} =>
               /\ ~result.ok
               /\ result.err = StageError(FirstFailed(doc, options), doc)

\* the three earlier sections decoded, the last one fails hard
C2_Witness ==
    /\ ParseDone
    /\ meta(doc).ok
    /\ \A k \in 1..3 : Enabled(k, options) /\ Extracted(k, doc).ok
    /\ Enabled(4, options) /\ HardFailure(4, doc)
    /\ ~result.ok
    /\ result.err.kind \in {"Number", "Date", "MissingField"}

\* C3: a new builder has all four toggles enabled; a toggle setter changes
\* its own flag and no other, and parse changes none; a section disabled at
\* parse time is None in the Report, and a hard failure its extractor would
\* report on the document does not fail the parse.
C3_DisabledSectionIsSkipped ==
    /\ [](call.op = "new" => options = everything)
    /\ [][/\ call'.op = "asset_valuation" =>
               options' = [options EXCEPT !.load_asset_valuation = call'.arg]
          /\ call'.op = "cash_flow" =>
               options' = [options EXCEPT !.load_cash_flow = call'.arg]
          /\ call'.op = "portfolio" =>
               options' = [options EXCEPT !.load_portfolio = call'.arg]
          /\ call'.op = "iis_contributions" =>
               options' = [options EXCEPT !.load_iis_contributions = call'.arg]
          /\ call'.op = "parse" => options' = options]_vars
    /\ [](ParseDone =>
            /\ (meta(doc).ok /\ \A k \in 1..4 : ~(Enabled(k, options) /\ HardFailure(k, doc)))
                   => result.ok
            /\ result.ok =>
                   \A k \in 1..4 : ~Enabled(k, options) => result.value[Sections[k]] = None)

\* a successful parse with a disabled section whose table has a bad cell
C3_Witness ==
    /\ ParseDone
    /\ result.ok
    /\ \E k \in 1..4 :
        /\ ~Enabled(k, options)
        /\ HardFailure(k, doc)
        /\ result.value[Sections[k]] = None
    /\ \E k \in 1..4 : Enabled(k, options) /\ result.value[Sections[k]] # None

-----------------------------------------------------------------------------
(* ReportSet inputs: a set of up to MaxReports reports, each with or without *)
(* a cash-flow summary and a portfolio.                                      *)

MaxReports == 3

\* "Входящий остаток на счете"
T_OPENING_ACCOUNT == <<1042, 1093, 1086, 1076, 1103, 1097, 1080, 1081, 32, 1086, 1089, 1090, 1072, 1090, 1086, 1082, 32, 1085, 1072, 32, 1089, 1095, 1077, 1090, 1077>>
\* "EUR"
T_EUR == <<69, 85, 82>>
\* "Газпром ао"
T_GAZPROM_AO == <<1043, 1072, 1079, 1087, 1088, 1086, 1084, 32, 1072, 1086>>

SampleMeta == meta([h3 |-> <<H3_OK>>, p |-> <<P_INVESTOR>>, tables |-> <<>>]).value

SampleReport(cash_flow_summary, portfolio) ==
    [meta |-> SampleMeta, asset_valuation |-> None,
     cash_flow_summary |-> cash_flow_summary, portfolio |-> portfolio,
     iis_contributions |-> None]

\* a CashFlowRow as parse_cash_flow_summary builds it
CashRow(description, amount, currency) ==
    [kind |-> classify_cash_flow(description), description_raw |-> description,
     amount |-> amount, currency |-> currency]

CF_OPENING == CashRow(T_OPENING, Dec(15, 1), T_RUB)
\* the key of CF_OPENING under another description
CF_OPENING_ACCOUNT == CashRow(T_OPENING_ACCOUNT, Dec(5, 1), T_RUB)
\* the kind of CF_OPENING in a currency that sorts before it
CF_OPENING_EUR == CashRow(T_OPENING, Dec(10, 0), T_EUR)
CF_FEE == CashRow(T_FEE, Dec(-2, 0), T_RUB)

CashFlowSamples ==
    { None,
      Some([rows |-> <<>>]),
      Some([rows |-> <<CF_OPENING, CF_FEE>>]),
      Some([rows |-> <<CF_OPENING_ACCOUNT, CF_OPENING_EUR>>]),
      Some([rows |-> <<CF_FEE, CF_OPENING_ACCOUNT, CF_OPENING>>]),
      Some([rows |-> <<CF_OPENING_EUR>>]) }

CashReports == {SampleReport(c, None) : c \in CashFlowSamples}

InitReportSet(samples) ==
    /\ reports \in SeqsUpTo(samples, MaxReports)
    /\ doc = NoDoc
    /\ options = everything
    /\ call = NoCall
    /\ result = <<>>
    /\ merged = <<>>

InitMergeCash == InitReportSet(CashReports)

MergeCashFlows ==
    /\ call = NoCall
    /\ call' = Call("merge_cash_flows")
    /\ merged' = merge_cash_flows(reports)
    /\ UNCHANGED <<doc, options, result, reports>>

SpecMergeCash == InitMergeCash /\ [][MergeCashFlows]_vars

\* the 15 numeric columns of a position, distinct in every column
PositionValues(base, scale) == [i \in 1..15 |-> Dec(base + 7 * i, scale)]

SP_GAZPROM == SecurityPosition(<<T_GAZPROM, T_ISIN_1, T_RUB>>, PositionValues(10, 1))
\* the ISIN of SP_GAZPROM under another name and price currency
SP_GAZPROM_USD == SecurityPosition(<<T_GAZPROM_AO, T_ISIN_1, T_USD>>, PositionValues(-200, 2))
SP_SBER == SecurityPosition(<<T_SBER, T_ISIN_2, T_USD>>, PositionValues(3, 0))

Market(name, positions) == [name |-> name, positions |-> positions]

PortfolioSamples ==
    { None,
      Some([markets |-> <<>>]),
      Some([markets |-> <<Market(T_MB, <<SP_GAZPROM>>)>>]),
      Some([markets |-> <<Market(T_MB, <<SP_GAZPROM, SP_SBER>>),
                          Market(T_SPB, <<SP_GAZPROM_USD>>)>>]),
      Some([markets |-> <<Market(T_SPB, <<SP_GAZPROM_USD>>)>>]),
      Some([markets |-> <<Market(T_MB, <<SP_SBER, SP_GAZPROM>>)>>]) }

PositionReports == {SampleReport(None, pf) : pf \in PortfolioSamples}

InitMergePos == InitReportSet(PositionReports)

MergePositions ==
    /\ call = NoCall
    /\ call' = Call("merge_positions")
    /\ merged' = merge_positions(reports)
    /\ UNCHANGED <<doc, options, result, reports>>

SpecMergePos == InitMergePos /\ [][MergePositions]_vars

-----------------------------------------------------------------------------
(* ReportSet claims *)

RECURSIVE Concat(_)
Concat(seqs) == IF seqs = <<>> THEN <<>> ELSE Head(seqs) \o Concat(Tail(seqs))

\* every cash-flow row of the set, in (report order, row order)
AllCashRows(rs) ==
    Concat([r \in 1..Len(rs) |->
               IF rs[r].cash_flow_summary = None THEN <<>>
               ELSE rs[r].cash_flow_summary[1].rows])

CashKey(row) == <<row.kind, row.currency>>

\* the indices of the rows with the key, and the first of them
WithKey(rows, key) == {i \in 1..Len(rows) : CashKey(rows[i]) = key}
FirstOf(S) == CHOOSE i \in S : \A j \in S : i <= j

\* the order of kinds stated by the claim
KindRank(kind) ==
    CASE kind = "OpeningBalance" -> 1
      [] kind = "TradesNet" -> 2
      [] kind = "CorporateActions" -> 3
      [] kind = "BrokerFee" -> 4
      [] kind = "ExchangeFee" -> 5
      [] kind = "ClosingBalance" -> 6
      [] kind = "Unknown" -> 7

\* a is before b as a string: a proper prefix, or less at the first difference
TextBefore(a, b) ==
    \E i \in 1..Len(b) :
        /\ \A j \in 1..(i - 1) : j <= Len(a) /\ a[j] = b[j]
        /\ i > Len(a) \/ (i <= Len(a) /\ a[i] < b[i])

MergeCashDone == call.op = "merge_cash_flows"

\* C4: merge_cash_flows returns exactly one row per (kind, currency) pair of
\* the input rows; its amount is the sum of the amounts of the input rows
\* with the pair, its description that of the first such row in (report
\* order, row order); the output is strictly ascending by (kind, currency),
\* the kinds ordered OpeningBalance < TradesNet < CorporateActions <
\* BrokerFee < ExchangeFee < ClosingBalance < Unknown.
C4_OneRowPerKindAndCurrency ==
    MergeCashDone =>
        LET all == AllCashRows(reports)
            out == merged.rows
        IN  /\ {CashKey(out[i]) : i \in 1..Len(out)} = {CashKey(all[i]) : i \in 1..Len(all)}
            /\ \A i, j \in 1..Len(out) :
                i < j =>
                    \/ KindRank(out[i].kind) < KindRank(out[j].kind)
                    \/ /\ out[i].kind = out[j].kind
                       /\ TextBefore(out[i].currency, out[j].currency)
            /\ \A i \in 1..Len(out) :
                LET same == WithKey(all, CashKey(out[i]))
                    amounts == [k \in 1..Cardinality(same) |-> all[Ascending(same)[k]].amount]
                IN  /\ out[i].amount = SumDec(amounts)
                    /\ out[i].description_raw = all[FirstOf(same)].description_raw

\* a key met in two reports under two descriptions, and an output in which
\* both the kind and the currency decide the place of a row
C4_Witness ==
    /\ MergeCashDone
    /\ Len(reports) >= 2
    /\ \E i, j \in 1..Len(AllCashRows(reports)) :
        /\ i < j
        /\ CashKey(AllCashRows(reports)[i]) = CashKey(AllCashRows(reports)[j])
        /\ AllCashRows(reports)[i].description_raw # AllCashRows(reports)[j].description_raw
    /\ Len(merged.rows) = 3
    /\ merged.rows[1].kind = merged.rows[2].kind
    /\ merged.rows[3].kind = "BrokerFee"

\* the grouped sums: the amount of every key of a merged summary
GroupedSums(summary) ==
    [key \in {CashKey(summary.rows[i]) : i \in 1..Len(summary.rows)} |->
        summary.rows[FirstOf(WithKey(summary.rows, key))].amount]

\* C5: for two reports A and B, merging [A, B] and merging [B, A] give the
\* same set of (kind, currency) keys with an equal amount for every key.
C5_MergeCashCommutes ==
    (MergeCashDone /\ Len(reports) = 2) =>
        GroupedSums(merged) = GroupedSums(merge_cash_flows(<<reports[2], reports[1]>>))

\* two different reports sharing a key
C5_Witness ==
    /\ MergeCashDone
    /\ Len(reports) = 2
    /\ reports[1] # reports[2]
    /\ reports[1].cash_flow_summary # None
    /\ reports[2].cash_flow_summary # None
    /\ \E i \in 1..Len(reports[1].cash_flow_summary[1].rows) :
       \E j \in 1..Len(reports[2].cash_flow_summary[1].rows) :
           /\ CashKey(reports[1].cash_flow_summary[1].rows[i])
                  = CashKey(reports[2].cash_flow_summary[1].rows[j])
           /\ reports[1].cash_flow_summary[1].rows[i].amount
                  # reports[2].cash_flow_summary[1].rows[j].amount
    /\ Len(merged.rows) >= 2

\* every position of the set, in (report, market, position) order
AllPositions(rs) ==
    Concat([r \in 1..Len(rs) |->
               IF rs[r].portfolio = None THEN <<>>
               ELSE Concat([m \in 1..Len(rs[r].portfolio[1].markets) |->
                               rs[r].portfolio[1].markets[m].positions])])

SummedFields ==
    {"qty_start", "qty_end", "value_start_no_ai", "value_end_no_ai", "qty_delta",
     "value_delta"}

MergePositionsDone == call.op = "merge_positions"

\* C6: merge_positions returns one MergedPosition per ISIN of the input
\* positions; each of qty_start, qty_end, value_start_no_ai, value_end_no_ai,
\* qty_delta and value_delta is the sum of the field over the occurrences of
\* the ISIN, name and price_currency are those of the first occurrence; a
\* set holding one report twice yields, per ISIN, twice every summed field of
\* the merge of the report alone, with the same name and currency.
C6_PositionsSumPerIsin ==
    MergePositionsDone =>
        LET all == AllPositions(reports)
            isins == {all[i].isin : i \in 1..Len(all)}
        IN  /\ {merged[i].isin : i \in 1..Len(merged)} = isins
            /\ Len(merged) = Cardinality(isins)
            /\ \A i \in 1..Len(merged) :
                LET same == {k \in 1..Len(all) : all[k].isin = merged[i].isin}
                    occurrences == Ascending(same)
                IN  /\ \A f \in SummedFields :
                        merged[i][f] =
                            SumDec([k \in 1..Len(occurrences) |-> all[occurrences[k]][f]])
                    /\ merged[i].name = all[FirstOf(same)].name
                    /\ merged[i].price_currency = all[FirstOf(same)].price_currency
            /\ (Len(reports) = 2 /\ reports[1] = reports[2]) =>
                LET single == merge_positions(<<reports[1]>>)
                IN  /\ Len(merged) = Len(single)
                    /\ \A i \in 1..Len(single) :
                        /\ merged[i].isin = single[i].isin
                        /\ merged[i].name = single[i].name
                        /\ merged[i].price_currency = single[i].price_currency
                        /\ \A f \in SummedFields :
                            merged[i][f] = DecAdd(single[i][f], single[i][f])

\* one report taken twice, in which an ISIN occurs under two price currencies
C6_Witness ==
    /\ MergePositionsDone
    /\ Len(reports) = 2
    /\ reports[1] = reports[2]
    /\ \E i, j \in 1..Len(AllPositions(<<reports[1]>>)) :
        /\ i < j
        /\ AllPositions(<<reports[1]>>)[i].isin = AllPositions(<<reports[1]>>)[j].isin
        /\ AllPositions(<<reports[1]>>)[i].price_currency
               # AllPositions(<<reports[1]>>)[j].price_currency
    /\ Len(merged) = 2
    /\ \E i \in 1..2 : merged[i].qty_start # ZERO

-----------------------------------------------------------------------------
(* Metadata inputs: a heading with three date texts and one investor         *)
(* paragraph.                                                                *)

\* "Отчет брокера за период с "
H3_PREFIX == <<1054, 1090, 1095, 1077, 1090, 32, 1073, 1088, 1086, 1082, 1077, 1088, 1072, 32, 1079, 1072, 32, 1087, 1077, 1088, 1080, 1086, 1076, 32, 1089, 32>>
\* " по "
H3_TO == <<32, 1087, 1086, 32>>
\* ", дата создания "
H3_CREATED == <<44, 32, 1076, 1072, 1090, 1072, 32, 1089, 1086, 1079, 1076, 1072, 1085, 1080, 1103, 32>>
\* "01.01.2024"
T_01_01_2024 == <<48, 49, 46, 48, 49, 46, 50, 48, 50, 52>>
\* "31.03.2024"
T_31_03_2024 == <<51, 49, 46, 48, 51, 46, 50, 48, 50, 52>>
\* "01.04.2024"
T_01_04_2024 == <<48, 49, 46, 48, 52, 46, 50, 48, 50, 52>>
\* "31.02.2024", no calendar date
T_31_02_2024 == <<51, 49, 46, 48, 50, 46, 50, 48, 50, 52>>
\* "Инвестор: петр петров Договор: 100ABC", one line
P_ONE_LINE == <<1048, 1085, 1074, 1077, 1089, 1090, 1086, 1088, 58, 32, 1087, 1077, 1090, 1088, 32, 1087, 1077, 1090, 1088, 1086, 1074, 32, 1044, 1086, 1075, 1086, 1074, 1086, 1088, 58, 32, 49, 48, 48, 65, 66, 67>>
\* "Инвестор: петр петров Договор: 100ABC ИИС", one line
P_ONE_LINE_IIS == <<1048, 1085, 1074, 1077, 1089, 1090, 1086, 1088, 58, 32, 1087, 1077, 1090, 1088, 32, 1087, 1077, 1090, 1088, 1086, 1074, 32, 1044, 1086, 1075, 1086, 1074, 1086, 1088, 58, 32, 49, 48, 48, 65, 66, 67, 32, 1048, 1048, 1057>>
\* "Петр Петров"
T_PETR_PETROV == <<1055, 1077, 1090, 1088, 32, 1055, 1077, 1090, 1088, 1086, 1074>>
\* "100ABC"
T_100ABC == <<49, 48, 48, 65, 66, 67>>

HeadingDates == {T_01_01_2024, T_31_03_2024, T_01_04_2024, T_31_02_2024}

Heading(from, to, created) == H3_PREFIX \o from \o H3_TO \o to \o H3_CREATED \o created

MetaParagraphs == {P_INVESTOR, P_ONE_LINE, P_ONE_LINE_IIS, P_NO_COLON}

MetaDocs ==
    { [h3 |-> <<Heading(from, to, created)>>, p |-> <<P_OTHER, block>>, tables |-> <<>>] :
        from \in HeadingDates, to \in HeadingDates, created \in HeadingDates,
        block \in MetaParagraphs }

InitMeta == InitExtractor(MetaDocs)

Meta ==
    /\ call = NoCall
    /\ call' = Call("meta")
    /\ result' = meta(doc)
    /\ UNCHANGED <<doc, options, reports, merged>>

SpecMeta == InitMeta /\ [][Meta]_vars

-----------------------------------------------------------------------------
(* Metadata claims *)

MetaDone == call.op = "meta"

Date(year, month, day) == [year |-> year, month |-> month, day |-> day]

\* the document of the scenario: the heading and the one-line paragraph
MetaScenarioDoc ==
    [h3 |-> <<Heading(T_01_01_2024, T_31_03_2024, T_01_04_2024)>>,
     p |-> <<P_OTHER, P_ONE_LINE>>, tables |-> <<>>]

\* C11: for the heading "... за период с 01.01.2024 по 31.03.2024, дата
\* создания 01.04.2024" and the one-line investor paragraph "Инвестор: петр
\* петров Договор: 100ABC", meta() succeeds with the three dates, the
\* investor name "Петр Петров", the contract number and account id "100ABC"
\* and the account kind Broker.
C11_MetadataScenario ==
    (MetaDone /\ doc = MetaScenarioDoc) =>
        /\ result.ok
        /\ result.value.period_start = Date(2024, 1, 1)
        /\ result.value.period_end = Date(2024, 3, 31)
        /\ result.value.generated_at = Date(2024, 4, 1)
        /\ result.value.investor_name = T_PETR_PETROV
        /\ result.value.contract_number = T_100ABC
        /\ result.value.account_id = result.value.contract_number
        /\ result.value.account_kind = "Broker"

DateLeq(a, b) ==
    \/ a.year < b.year
    \/ a.year = b.year /\ a.month < b.month
    \/ a.year = b.year /\ a.month = b.month /\ a.day <= b.day

\* C12: every ReportMetadata returned by meta() has period_start <=
\* period_end.
C12_PeriodStartNotAfterEnd ==
    (MetaDone /\ result.ok) => DateLeq(result.value.period_start, result.value.period_end)

-----------------------------------------------------------------------------
(* ReportSet::from_dir_with, report_set.rs.  A directory is what read_dir    *)
(* gives: whether it can be listed, and its entries in enumeration order.    *)
(* An entry has a file name, is a regular file or not, can be opened and     *)
(* read as UTF-8 or not, and holds a document.                               *)

IoError(source) == [kind |-> "Io", source |-> source]

\* "html"
EXT_HTML == <<104, 116, 109, 108>>
\* "htm"
EXT_HTM == <<104, 116, 109>>

to_ascii_lowercase(s) == [i \in 1..Len(s) |-> IF s[i] \in 65..90 THEN s[i] + 32 ELSE s[i]]

\* Path::extension of a file name: the part after the last '.', none when
\* there is no '.' or the only '.' is the first character
extension(name) ==
    LET dots == {i \in 1..Len(name) : name[i] = DOT}
        last == CHOOSE i \in dots : \A j \in dots : j <= i
    IN  IF dots = {} THEN None
        ELSE IF last = 1 THEN None
        ELSE Some(SubSeq(name, last + 1, Len(name)))

\* the two `continue` filters of the loop
admitted(entry) ==
    /\ entry.is_file
    /\ extension(entry.path) # None
    /\ to_ascii_lowercase(extension(entry.path)[1]) \in {EXT_HTML, EXT_HTM}

\* variant: the entries are left in enumeration order
sort_by_key_unsorted(entries) == entries

\* entries.sort_by_key(DirEntry::path): the paths of one directory differ in
\* the file name only, and no two are equal
RECURSIVE sort_by_key(_)
sort_by_key(entries) ==
    IF entries = <<>> THEN <<>>
    ELSE
        LET rest == sort_by_key(Tail(entries))
            before == Cardinality({j \in 1..Len(rest) :
                                      StrLess(rest[j].path, Head(entries).path)})
        IN  SubSeq(rest, 1, before) \o <<Head(entries)>> \o SubSeq(rest, before + 1, Len(rest))

\* File::open, RawReport::from_reader and parse_fn on an admitted entry
load_entry(entry, opts) ==
    IF ~entry.opens THEN Err(IoError("open"))
    ELSE IF ~entry.utf8 THEN Err(IoError("read_to_string"))
    ELSE parse_with_options(entry.doc, opts)

\* variant: a document that fails is skipped and the loop goes on
from_dir_turn_skips_failures(report, loaded) ==
    IF report.ok THEN Ok(Append(loaded, report.value)) ELSE Ok(loaded)

\* `?` and reports.push(report): the reports after the turn, or the error
from_dir_turn(report, loaded) ==
    IF report.ok THEN Ok(Append(loaded, report.value)) ELSE report

RECURSIVE from_dir_loop(_, _, _, _)

\* after the turn for entries[idx]: the error, or the rest of the loop
from_dir_next(entries, idx, opts, turn) ==
    IF turn.ok THEN from_dir_loop(entries, idx + 1, opts, turn.value) ELSE turn

\* the loop over the sorted entries; idx is the position of the next entry
from_dir_loop(entries, idx, opts, loaded) ==
    IF idx > Len(entries) THEN Ok([reports |-> loaded])
    ELSE IF ~admitted(entries[idx]) THEN from_dir_loop(entries, idx + 1, opts, loaded)
    ELSE from_dir_next(entries, idx, opts,
                       from_dir_turn(load_entry(entries[idx], opts), loaded))

\* parse_fn is the builder configured with opts, then parse()
from_dir_with(dir, opts) ==
    IF ~dir.listable THEN Err(IoError("read_dir"))
    ELSE from_dir_loop(sort_by_key(dir.entries), 1, opts, <<>>)

-----------------------------------------------------------------------------
(* Directory inputs *)

MaxEntries == 3

\* "a.html"
N_A_HTML == <<97, 46, 104, 116, 109, 108>>
\* "B.HTM"
N_B_HTM_UPPER == <<66, 46, 72, 84, 77>>
\* "c.htm"
N_C_HTM == <<99, 46, 104, 116, 109>>
\* "d.html"
N_D_HTML == <<100, 46, 104, 116, 109, 108>>
\* "e.txt"
N_E_TXT == <<101, 46, 116, 120, 116>>
\* "f"
N_F == <<102>>
\* "g.html"
N_G_HTML == <<103, 46, 104, 116, 109, 108>>
\* ".html"
N_DOT_HTML == <<46, 104, 116, 109, 108>>
\* "z.HtMl"
N_Z_HTML_MIXED == <<122, 46, 72, 116, 77, 108>>

CR_OPENING_ACCOUNT == Row(<<T_OPENING_ACCOUNT, T_0_5, T_RUB>>)

\* the position of PR_A under another name and price currency
PR_A_USD ==
    Row(<<T_GAZPROM_AO, T_ISIN_1, T_USD,
          T_2, BLANK, T_3, T_7, T_0_5,
          T_3, BLANK, T_2, T_10, T_1_5,
          T_12, T_M2, BLANK, BLANK, T_3>>)

\* a document with a cash-flow table and a portfolio table
SetDoc(cash_rows, position_rows) ==
    [h3 |-> <<H3_OK>>, p |-> <<P_INVESTOR>>,
     tables |->
        <<PlainTable(<<CashFlowHeaderRow, HeaderRow(<<T_HEAD>>)>> \o cash_rows),
          PlainTable(<<PortfolioHeaderRow, HeaderRow(<<T_HEAD>>), HeaderRow(<<T_HEAD>>)>>
                         \o position_rows)>>]

DOC_FIRST == SetDoc(<<CR_OPENING, CR_FEE>>, <<PR_MARK_MB, PR_A>>)
\* the cash-flow key and the ISIN of DOC_FIRST under other texts
DOC_SECOND == SetDoc(<<CR_OPENING_ACCOUNT>>, <<PR_A_USD>>)
\* a cell that is no number
DOC_BAD_CELL == SetDoc(<<CR_OPENING, CR_BAD>>, <<PR_B>>)
\* no heading
DOC_NO_HEADING == [h3 |-> <<>>, p |-> <<P_INVESTOR>>, tables |-> <<>>]

DirEntry(path, is_file, opens, utf8, d) ==
    [path |-> path, is_file |-> is_file, opens |-> opens, utf8 |-> utf8, doc |-> d]

EntrySamples ==
    { DirEntry(N_A_HTML, TRUE, TRUE, TRUE, DOC_SECOND),
      DirEntry(N_B_HTM_UPPER, TRUE, TRUE, TRUE, DOC_FIRST),
      DirEntry(N_C_HTM, TRUE, TRUE, TRUE, DOC_BAD_CELL),
      DirEntry(N_D_HTML, TRUE, FALSE, FALSE, DOC_FIRST),
      DirEntry(N_E_TXT, TRUE, TRUE, TRUE, DOC_NO_HEADING),
      DirEntry(N_F, TRUE, TRUE, TRUE, DOC_FIRST),
      DirEntry(N_G_HTML, FALSE, FALSE, FALSE, NoDoc),
      DirEntry(N_DOT_HTML, TRUE, TRUE, FALSE, DOC_NO_HEADING),
      DirEntry(N_Z_HTML_MIXED, TRUE, TRUE, TRUE, DOC_FIRST) }

\* the enumerations of up to MaxEntries entries, no entry twice
Enumerations ==
    {es \in SeqsUpTo(EntrySamples, MaxEntries) :
        \A i, j \in 1..Len(es) : i # j => es[i] # es[j]}

Directories ==
    {[listable |-> TRUE, entries |-> es] : es \in Enumerations}
        \cup {[listable |-> FALSE, entries |-> <<>>]}

\* from_dir passes the builder as it is; a caller of from_dir_with may turn
\* sections off
InitFromDir ==
    /\ options \in {everything, set_cash_flow(everything, FALSE)}
    /\ doc = NoDoc
    /\ call = NoCall
    /\ result = <<>>
    /\ reports = <<>>
    /\ merged = <<>>

FromDirWith(dir) ==
    /\ call = NoCall
    /\ call' = [op |-> "from_dir_with", arg |-> dir]
    /\ result' = from_dir_with(dir, options)
    /\ reports' = IF result'.ok THEN result'.value.reports ELSE <<>>
    /\ UNCHANGED <<doc, options, merged>>

NextFromDir == \E dir \in Directories : FromDirWith(dir)

SpecFromDir == InitFromDir /\ [][NextFromDir]_vars

-----------------------------------------------------------------------------
(* Directory claims *)

FromDirDone == call.op = "from_dir_with"

\* the name is a non-empty stem, a '.', and html or htm in any letter case
HasHtmlExtension(name) ==
    \E k \in 2..Len(name) :
        /\ name[k] = DOT
        /\ to_ascii_lowercase(SubSeq(name, k + 1, Len(name))) \in {EXT_HTML, EXT_HTM}

\* the entries of the set S in ascending order of path
AscendingByPath(S) ==
    [k \in 1..Cardinality(S) |->
        CHOOSE e \in S : Cardinality({o \in S : TextBefore(o.path, e.path)}) = k - 1]

\* the documents the batch is built from, in ascending path order
AdmittedDocuments(dir) ==
    AscendingByPath({dir.entries[i] : i \in 1..Len(dir.entries)} \cap
                    {e \in EntrySamples : e.is_file /\ HasHtmlExtension(e.path)})

\* C13: when reading or parsing an admitted document fails, from_dir_with
\* returns the error of the first such document in path order and no
\* ReportSet: the reports of the documents before it are discarded and no
\* document after it is loaded in its place.
C13_FailingDocumentAbortsTheBatch ==
    (FromDirDone /\ call.arg.listable) =>
        LET documents == AdmittedDocuments(call.arg)
            failing == {k \in 1..Len(documents) : ~load_entry(documents[k], options).ok}
        IN  failing # {} =>
                /\ ~result.ok
                /\ DOMAIN result = {"ok", "err"}
                /\ result.err = load_entry(documents[FirstOf(failing)], options).err
                /\ reports = <<>>

\* a document that fails between two documents that load
C13_Witness ==
    /\ FromDirDone
    /\ Len(AdmittedDocuments(call.arg)) = 3
    /\ load_entry(AdmittedDocuments(call.arg)[1], options).ok
    /\ ~load_entry(AdmittedDocuments(call.arg)[2], options).ok
    /\ load_entry(AdmittedDocuments(call.arg)[3], options).ok
    /\ ~result.ok

\* the directory with the same entries enumerated in ascending path order
InPathOrder(dir) ==
    [dir EXCEPT !.entries = AscendingByPath({dir.entries[i] : i \in 1..Len(dir.entries)})]

\* C14: whatever the enumeration order, from_dir_with gives what it gives
\* for the same entries enumerated in path order; a ReportSet holds the
\* reports of the regular files with extension html or htm, in any letter
\* case, in ascending path order, and merge_cash_flows and merge_positions
\* over it are those of the set loaded in path order.
C14_BatchIsDeterministic ==
    (FromDirDone /\ call.arg.listable) =>
        /\ result = from_dir_with(InPathOrder(call.arg), options)
        /\ result.ok =>
            LET documents == AdmittedDocuments(call.arg)
                expected == [k \in 1..Len(documents) |->
                                parse_with_options(documents[k].doc, options).value]
            IN  /\ result.value.reports = expected
                /\ merge_cash_flows(result.value.reports) = merge_cash_flows(expected)
                /\ merge_positions(result.value.reports) = merge_positions(expected)

\* two documents enumerated against path order beside an entry that is not
\* admitted; the retained description, name and currency are those of the
\* document first in path order
C14_Witness ==
    /\ FromDirDone
    /\ result.ok
    /\ Len(call.arg.entries) = 3
    /\ Len(result.value.reports) = 2
    /\ \E i, j \in 1..3 :
        /\ i < j
        /\ call.arg.entries[i].path = N_Z_HTML_MIXED
        /\ call.arg.entries[j].path = N_A_HTML
    /\ options = everything
    /\ merge_cash_flows(result.value.reports).rows[1].description_raw = T_OPENING_ACCOUNT
    /\ Len(merge_positions(result.value.reports)) = 1
    /\ merge_positions(result.value.reports)[1].name = T_GAZPROM_AO
    /\ merge_positions(result.value.reports)[1].price_currency = T_USD

-----------------------------------------------------------------------------
(* Money inputs: every text of up to MaxMoneyLen characters over the         *)
(* characters the parser tells apart, and two of the callers' column names.  *)

MaxMoneyLen == 3

\* ' ', U+00A0, '+', '-', '.', '1', '2', 'x'
MoneyChars == {SPACE, NBSP, PLUS, MINUS, DOT, 49, 50, 120}

MoneyTexts == SeqsUpTo(MoneyChars, MaxMoneyLen)

MoneyColumns == {"Summa DS", "Itogo"}

InitMoney == InitExtractor({NoDoc})

ParseMoneyOrZero(value, column) ==
    /\ call = NoCall
    /\ call' = [op |-> "parse_money_or_zero", arg |-> [value |-> value, column |-> column]]
    /\ result' = parse_money_or_zero(value, column)
    /\ UNCHANGED <<doc, options, reports, merged>>

NextMoney == \E value \in MoneyTexts, column \in MoneyColumns : ParseMoneyOrZero(value, column)

SpecMoney == InitMoney /\ [][NextMoney]_vars

-----------------------------------------------------------------------------
(* Money claims *)

MoneyDone == call.op = "parse_money_or_zero"

\* the text without plain, no-break and narrow no-break spaces
WithoutSpaces(t) == SelectSeq(t, LAMBDA ch : ch \notin {SPACE, NBSP, NNBSP})

\* the remainder: the spaces removed, then the '+' signs the text leads with
Remainder(t) == trim_start_matches(WithoutSpaces(t), <<PLUS>>)

\* an optional sign, digits with at most one separator, at least one digit
IsDecimalLiteral(r) ==
    LET body == IF r # <<>> /\ Head(r) \in {MINUS, PLUS} THEN Tail(r) ELSE r
    IN  /\ \A i \in 1..Len(body) : IsDigit(body[i]) \/ body[i] = DOT
        /\ Cardinality({i \in 1..Len(body) : body[i] = DOT}) <= 1
        /\ \E i \in 1..Len(body) : IsDigit(body[i])

\* C15: with the spaces and a leading "+" removed, an empty remainder gives
\* zero, a remainder that is a decimal literal gives its value, and any other
\* remainder gives the Number error with the trimmed input and the column.
C15_MoneyTextIsZeroValueOrError ==
    MoneyDone =>
        LET r == Remainder(call.arg.value)
        IN  /\ r = <<>> => result = Ok(ZERO)
            /\ IsDecimalLiteral(r) => result = Ok(DecimalFromStr(r)[1])
            /\ (r # <<>> /\ ~IsDecimalLiteral(r)) =>
                   result = Err(NumberError(trim(call.arg.value), call.arg.column))

-----------------------------------------------------------------------------
(* Classifier inputs: descriptions of up to MaxPhrases words and phrases,     *)
(* joined by a space: the six phrases in lower and in upper case, a word of   *)
(* no phrase and the first word of a phrase alone.                            *)

MaxPhrases == 2

\* the letters a-z and the Cyrillic letters of the phrases in upper case
UpperCase(t) ==
    [i \in 1..Len(t) |->
        IF (t[i] >= 97 /\ t[i] <= 122) \/ (t[i] >= 1072 /\ t[i] <= 1103)
        THEN t[i] - 32 ELSE t[i]]

ClassifierPhrases ==
    <<PH_OPENING, PH_TRADES, PH_CORPORATE, PH_BROKER_FEE, PH_EXCHANGE_FEE, PH_CLOSING>>

ClassifierWords ==
    {ClassifierPhrases[k] : k \in 1..6}
        \cup {UpperCase(ClassifierPhrases[k]) : k \in 1..6}
        \cup {T_REASON, SubSeq(PH_BROKER_FEE, 1, 8)}

RECURSIVE JoinWords(_)
JoinWords(ws) ==
    IF ws = <<>> THEN <<>>
    ELSE IF Len(ws) = 1 THEN ws[1]
    ELSE ws[1] \o <<SPACE>> \o JoinWords(Tail(ws))

Descriptions == {JoinWords(ws) : ws \in SeqsUpTo(ClassifierWords, MaxPhrases)}

InitClassify == InitExtractor({NoDoc})

ClassifyCashFlow(description) ==
    /\ call = NoCall
    /\ call' = [op |-> "classify_cash_flow", arg |-> description]
    /\ result' = classify_cash_flow(description)
    /\ UNCHANGED <<doc, options, reports, merged>>

NextClassify == \E description \in Descriptions : ClassifyCashFlow(description)

SpecClassify == InitClassify /\ [][NextClassify]_vars

-----------------------------------------------------------------------------
(* Classifier claims *)

ClassifyDone == call.op = "classify_cash_flow"

\* the phrase occurs in the text when letter case is set aside
ContainsIgnoringCase(text, phrase) ==
    \E i \in 0..(Len(text) - Len(phrase)) :
        \A j \in 1..Len(phrase) : to_lowercase_char(text[i + j]) = phrase[j]

\* C20: classify_cash_flow gives every description a kind: the kind of the
\* first of the phrases for OpeningBalance, TradesNet, CorporateActions,
\* BrokerFee, ExchangeFee, ClosingBalance, in this order, that the description
\* contains in any letter case, and Unknown when it contains none.
C20_FirstPhraseInOrderWins ==
    ClassifyDone =>
        LET hits == {k \in 1..6 : ContainsIgnoringCase(call.arg, ClassifierPhrases[k])}
        IN  result = IF hits = {} THEN "Unknown"
                     ELSE CashFlowKinds[CHOOSE k \in hits : \A h \in hits : k <= h]

\* a description that starts with the closing phrase in upper case and goes
\* on with the opening phrase is an opening balance
C20_Witness ==
    /\ ClassifyDone
    /\ call.arg = JoinWords(<<UpperCase(PH_CLOSING), PH_OPENING>>)
    /\ result = "OpeningBalance"

====
